---------------------------- MODULE Spec2Model ----------------------------
(***************************************************************************)
(* Model of the meshcq simplex repeater: the capture callback              *)
(* (meshcq-modem/src/device.rs), the control loop                          *)
(* (meshcq-simplex-repeater/src/main.rs), the recordings directory         *)
(* (recording.rs) and the DTMF debouncer (meshcq-dtmf/src/detect.rs).      *)
(*                                                                         *)
(* Time is counted in samples.  The capture callback runs at the hardware  *)
(* cadence, so its sample_cursor is the wall clock of the capture thread;  *)
(* the control thread has its own wall clock `clock`, advanced by its      *)
(* timeouts and by the time its processing takes.  Every chunk on the      *)
(* input channel carries the instant `at` it was sent, and recv_timeout    *)
(* compares that instant with the deadline of the wait.                    *)
(*                                                                         *)
(* A Vec<f32> is a sequence of runs [k, a, n, id]: n consecutive samples   *)
(* of source k starting at index a of that source.  Sources: "zero" (0.0), *)
(* "in" (the captured stream, a = absolute stream position), "cs" (the     *)
(* pre-rendered callsign), "rec" (the decoded samples of recording file    *)
(* id), "noise" (the output of fill_band_limited_gaussian_noise).  Runs    *)
(* are kept merged, so two vectors are equal iff their run lists are.      *)
(***************************************************************************)
EXTENDS Integers, Sequences, FiniteSets, TLC

\* ---------------------------------------------------------------- constants
SAMPLE_RATE_HZ == 48000
ID_INTERVAL_SECS == 540
ID_IDLE_SECS == 30
PRE_CALLSIGN_GAP_MS == 1000
CONTINUITY_GAP_MS == 1000
TX_LEAD_TIME_MS == 200
TX_HANG_TIME_MS == 1000
DTMF_COMMAND_GAP_MS == 2000
ENERGY_BLOCK == 1024
OUTPUT_RING_CAP == 192000
OPUS_FRAME_SAMPLES == 960
DEFAULT_FRAME_MS == 30
DEFAULT_MIN_PRESS_FRAMES == 2
DEFAULT_MIN_GAP_FRAMES == 3
WPM == 20

\* ------------------------------------------------------------------- bounds
\* Number of Morse units of the configured callsign ("A" = 5 units).
CallsignUnits == 5
\* Number of capture steps (bursts or large callbacks) explored.
MaxCapture == 3
\* Number of upsets explored: a failing write_recording or read_recording, a
\* slow pass of the loop body, the death of the input or the output stream.
MaxFaults == 1

\* ------------------------------------------------------------------ options
None == <<>>
Some(v) == <<v>>
IsSome(o) == o # <<>>
Unwrap(o) == o[1]

Max(a, b) == IF a >= b THEN a ELSE b
Min(a, b) == IF a <= b THEN a ELSE b

\* u64/usize saturating arithmetic.  Every value of the model stays far below
\* 2^64, so saturating_add never saturates; saturating_sub clamps at 0.
saturating_add(a, b) == a + b
saturating_sub(a, b) == IF a >= b THEN a - b ELSE 0

\* ------------------------------------------------------------ sample vectors
Run(k, a, n, id) == [k |-> k, a |-> a, n |-> n, id |-> id]

\* Two adjacent runs hold consecutive samples of the same source.
Joins(r, s) ==
    /\ r.k = s.k
    /\ r.id = s.id
    /\ \/ r.k = "zero"
       \/ s.a = r.a + r.n

\* Vec::extend / extend_from_slice.
Extend(v, w) ==
    IF w = <<>> THEN v
    ELSE IF v = <<>> THEN w
    ELSE IF Joins(v[Len(v)], w[1])
         THEN SubSeq(v, 1, Len(v) - 1)
              \o <<Run(v[Len(v)].k, v[Len(v)].a, v[Len(v)].n + w[1].n, v[Len(v)].id)>>
              \o SubSeq(w, 2, Len(w))
         ELSE v \o w

\* std::iter::repeat_n(0.0, n)
Zeros(n) == IF n = 0 THEN <<>> ELSE <<Run("zero", 0, n, 0)>>

RECURSIVE VLen(_)
VLen(v) == IF v = <<>> THEN 0 ELSE v[1].n + VLen(Tail(v))

\* The first n samples of v, and v without its first n samples.
RECURSIVE VTake(_, _)
VTake(v, n) ==
    IF n = 0 \/ v = <<>> THEN <<>>
    ELSE IF v[1].n <= n THEN <<v[1]>> \o VTake(Tail(v), n - v[1].n)
    ELSE <<Run(v[1].k, v[1].a, n, v[1].id)>>

RECURSIVE VDrop(_, _)
VDrop(v, n) ==
    IF n = 0 \/ v = <<>> THEN v
    ELSE IF v[1].n <= n THEN VDrop(Tail(v), n - v[1].n)
    ELSE <<Run(v[1].k, IF v[1].k = "zero" THEN 0 ELSE v[1].a + n, v[1].n - n, v[1].id)>>
         \o Tail(v)

\* ------------------------------------------------------------ time and sizes
\* (SAMPLE_RATE_HZ * secs).round() for the u64 second counts.
samples_from_secs(secs) == SAMPLE_RATE_HZ * secs
\* (SAMPLE_RATE_HZ * secs).round() for the f32 durations, given in ms.
samples_from_millis(ms) == (SAMPLE_RATE_HZ * ms + 500) \div 1000

\* CwModulator::new: samples of one Morse unit.
unit_samples == Max(1, (SAMPLE_RATE_HZ * 60 + (WPM * 50) \div 2) \div (WPM * 50))

\* The pre-rendered callsign: units * unit_samples samples.
callsign_samples ==
    IF CallsignUnits = 0 THEN <<>>
    ELSE <<Run("cs", 0, CallsignUnits * unit_samples, 0)>>


\* -------------------------------------------------------- transmit buffers
transmit_len(message_len, callsign_len, include_callsign) ==
    LET lead_samples == samples_from_millis(TX_LEAD_TIME_MS)
        hang_samples == samples_from_millis(TX_HANG_TIME_MS)
        gap_samples == IF include_callsign
                       THEN samples_from_millis(PRE_CALLSIGN_GAP_MS) ELSE 0
    IN lead_samples + message_len + gap_samples
       + (IF include_callsign THEN callsign_len ELSE 0) + hang_samples

\* build_transmit_message without the pause before the callsign.
build_transmit_message_no_gap(message, callsign, include_callsign) ==
    LET out1 == Extend(Zeros(samples_from_millis(TX_LEAD_TIME_MS)), message)
        out2 == IF include_callsign THEN Extend(out1, callsign) ELSE out1
    IN Extend(out2, Zeros(samples_from_millis(TX_HANG_TIME_MS)))

build_transmit_message(message, callsign, include_callsign) ==
    LET lead_samples == samples_from_millis(TX_LEAD_TIME_MS)
        hang_samples == samples_from_millis(TX_HANG_TIME_MS)
        gap_samples == IF include_callsign
                       THEN samples_from_millis(PRE_CALLSIGN_GAP_MS) ELSE 0
        out1 == Extend(Zeros(lead_samples), message)
        out2 == IF include_callsign
                THEN Extend(Extend(out1, Zeros(gap_samples)), callsign)
                ELSE out1
    IN Extend(out2, Zeros(hang_samples))

\* ------------------------------------------------------- capture callback
\* A TimedChunk on the input channel; `at` is the instant of the send (the
\* sample_cursor of the callback that sent it) and is not a field of the chunk.
TimedChunk(samples, end_sample, at) ==
    [samples |-> samples, end_sample |-> end_sample, at |-> at]

\* process_block: cs = [block, message, sent]; the full block holds the stream
\* samples [pos_end - ENERGY_BLOCK, pos_end); `loud` is energy > ENERGY_THRESHOLD.
process_block(cs, pos_end, loud, buffer_end) ==
    IF loud
    THEN [cs EXCEPT !.block = 0,
                    !.message = Extend(@, <<Run("in", pos_end - ENERGY_BLOCK,
                                                ENERGY_BLOCK, 0)>>)]
    ELSE IF cs.message # <<>>
    THEN [cs EXCEPT !.block = 0,
                    !.message = <<>>,
                    !.sent = Append(@, TimedChunk(cs.message, buffer_end, buffer_end))]
    ELSE [cs EXCEPT !.block = 0]

\* The loop over the callback's data: `pos` is the stream position of
\* data[offset], `remaining` is data.len() - offset, loud[i] the energy verdict
\* of the i-th block completed by this callback.
RECURSIVE callback_loop(_, _, _, _, _)
callback_loop(cs, pos, remaining, loud, buffer_end) ==
    IF remaining = 0 THEN cs
    ELSE LET need == ENERGY_BLOCK - cs.block
             take == Min(need, remaining)
         IN IF cs.block + take >= ENERGY_BLOCK
            THEN callback_loop(
                     process_block([cs EXCEPT !.block = @ + take],
                                   pos + take, loud[1], buffer_end),
                     pos + take, remaining - take, Tail(loud), buffer_end)
            ELSE callback_loop([cs EXCEPT !.block = @ + take],
                               pos + take, remaining - take, loud, buffer_end)

\* One input callback with `frames` frames: c = [cursor, block, message, sent].
input_callback(c, frames, loud) ==
    LET buffer_end == saturating_add(c.cursor, frames)
        r == callback_loop([block |-> c.block, message |-> c.message, sent |-> c.sent],
                           c.cursor, frames, loud, buffer_end)
    IN [cursor |-> buffer_end, block |-> r.block, message |-> r.message, sent |-> r.sent]

\* n successive callbacks of ENERGY_BLOCK frames whose blocks all have energy
\* above the threshold: each completes the block begun block.len() samples
\* before it and appends it to message.
loud_span(c, n) ==
    [c EXCEPT !.cursor = saturating_add(@, n * ENERGY_BLOCK),
              !.message = Extend(@, <<Run("in", c.cursor - c.block,
                                          n * ENERGY_BLOCK, 0)>>)]

\* Callbacks delivering `total` silent samples while no burst is in progress:
\* every completed block has energy <= threshold and message is empty, so only
\* the cursor and the partial block move.
quiet_span(c, total) ==
    [c EXCEPT !.cursor = saturating_add(@, total),
              !.block = (@ + total) % ENERGY_BLOCK]


\* ------------------------------------------------------------ DTMF debouncer
\* The 16 keys in the index order of most_common_key.
Keys == <<"1", "2", "3", "A", "4", "5", "6", "B",
          "7", "8", "9", "C", "*", "0", "#", "D">>

\* ms_to_samples(DEFAULT_FRAME_MS, sample_rate_hz)
frame_len == Max(1, (SAMPLE_RATE_HZ * DEFAULT_FRAME_MS + 500) \div 1000)
min_press_frames == DEFAULT_MIN_PRESS_FRAMES
min_gap_frames == DEFAULT_MIN_GAP_FRAMES

\* Number of entries of the history equal to key ch.
RECURSIVE CountKey(_, _)
CountKey(history, ch) ==
    IF history = <<>> THEN 0
    ELSE (IF history[1] = ch THEN 1 ELSE 0) + CountKey(Tail(history), ch)

\* The scan for the first index holding the largest count: i is the next index,
\* max_i / max_v the running maximum (max_i = 0: none yet).
RECURSIVE max_scan(_, _, _, _)
max_scan(history, i, max_i, max_v) ==
    IF i > Len(Keys) THEN max_i
    ELSE IF CountKey(history, Keys[i]) > max_v
         THEN max_scan(history, i + 1, i, CountKey(history, Keys[i]))
         ELSE max_scan(history, i + 1, max_i, max_v)

\* A scan that lets a later index of the same count take over.
RECURSIVE max_scan_taking_later(_, _, _, _)
max_scan_taking_later(history, i, max_i, max_v) ==
    IF i > Len(Keys) THEN max_i
    ELSE IF CountKey(history, Keys[i]) >= max_v /\ CountKey(history, Keys[i]) > 0
         THEN max_scan_taking_later(history, i + 1, i, CountKey(history, Keys[i]))
         ELSE max_scan_taking_later(history, i + 1, max_i, max_v)

most_common_key_breaking_ties_late(history) ==
    LET idx == max_scan_taking_later(history, 1, 0, 0)
    IN IF idx = 0 THEN None ELSE Some(Keys[idx])

most_common_key(history) ==
    LET idx == max_scan(history, 1, 0, 0)
    IN IF idx = 0 THEN None ELSE Some(Keys[idx])

\* DtmfDebouncer::reset (the state after build is the same).
debouncer_reset ==
    [samples_in_frame |-> 0, current |-> None, gap_frames |-> 0,
     current_start |-> 0, current_last |-> 0, current_history |-> <<>>]

\* A consume_frame that commits every released key, however short its press.
consume_frame_without_min_press(d, detected, frame_start, frame_end) ==
    IF IsSome(detected)
    THEN [d EXCEPT !.db.current = IF d.db.current = None THEN detected ELSE @,
                   !.db.current_start = IF d.db.current = None THEN frame_start ELSE @,
                   !.db.current_history = Append(@, Unwrap(detected)),
                   !.db.current_last = frame_end,
                   !.db.gap_frames = 0]
    ELSE IF IsSome(d.db.current)
    THEN IF d.db.gap_frames + 1 >= min_gap_frames
         THEN [db |-> [d.db EXCEPT !.current = None, !.gap_frames = 0,
                                   !.current_history = <<>>],
               events |->
                   IF IsSome(most_common_key(d.db.current_history))
                   THEN Append(d.events,
                               <<Unwrap(most_common_key(d.db.current_history)),
                                 d.db.current_start, d.db.current_last>>)
                   ELSE d.events]
         ELSE [d EXCEPT !.db.gap_frames = @ + 1]
    ELSE d

\* A consume_frame that starts tracking anew when a frame detects another key.
consume_frame_restarting_on_other_key(d, detected, frame_start, frame_end) ==
    IF IsSome(detected)
    THEN IF d.db.current = None \/ d.db.current # detected
         THEN [d EXCEPT !.db.current = detected,
                        !.db.current_start = frame_start,
                        !.db.current_history = <<Unwrap(detected)>>,
                        !.db.current_last = frame_end,
                        !.db.gap_frames = 0]
         ELSE [d EXCEPT !.db.current_history = Append(@, Unwrap(detected)),
                        !.db.current_last = frame_end,
                        !.db.gap_frames = 0]
    ELSE IF IsSome(d.db.current)
    THEN IF d.db.gap_frames + 1 >= min_gap_frames
         THEN [db |-> [d.db EXCEPT !.current = None, !.gap_frames = 0,
                                   !.current_history = <<>>],
               events |->
                   IF /\ Len(d.db.current_history) >= min_press_frames
                      /\ IsSome(most_common_key(d.db.current_history))
                   THEN Append(d.events,
                               <<Unwrap(most_common_key(d.db.current_history)),
                                 d.db.current_start, d.db.current_last>>)
                   ELSE d.events]
         ELSE [d EXCEPT !.db.gap_frames = @ + 1]
    ELSE d

\* A consume_frame whose detecting frames leave the release counter as it is.
consume_frame_keeping_gap_count(d, detected, frame_start, frame_end) ==
    IF IsSome(detected)
    THEN [d EXCEPT !.db.current = IF d.db.current = None THEN detected ELSE @,
                   !.db.current_start = IF d.db.current = None THEN frame_start ELSE @,
                   !.db.current_history = Append(@, Unwrap(detected)),
                   !.db.current_last = frame_end]
    ELSE IF IsSome(d.db.current)
    THEN IF d.db.gap_frames + 1 >= min_gap_frames
         THEN [db |-> [d.db EXCEPT !.current = None, !.gap_frames = 0,
                                   !.current_history = <<>>],
               events |->
                   IF /\ Len(d.db.current_history) >= min_press_frames
                      /\ IsSome(most_common_key(d.db.current_history))
                   THEN Append(d.events,
                               <<Unwrap(most_common_key(d.db.current_history)),
                                 d.db.current_start, d.db.current_last>>)
                   ELSE d.events]
         ELSE [d EXCEPT !.db.gap_frames = @ + 1]
    ELSE d

\* A consume_frame whose release forgets the key and keeps its history.
consume_frame_keeping_history(d, detected, frame_start, frame_end) ==
    IF IsSome(detected)
    THEN [d EXCEPT !.db.current = IF d.db.current = None THEN detected ELSE @,
                   !.db.current_start = IF d.db.current = None THEN frame_start ELSE @,
                   !.db.current_history = Append(@, Unwrap(detected)),
                   !.db.current_last = frame_end,
                   !.db.gap_frames = 0]
    ELSE IF IsSome(d.db.current)
    THEN IF d.db.gap_frames + 1 >= min_gap_frames
         THEN [db |-> [d.db EXCEPT !.current = None, !.gap_frames = 0],
               events |->
                   IF /\ Len(d.db.current_history) >= min_press_frames
                      /\ IsSome(most_common_key(d.db.current_history))
                   THEN Append(d.events,
                               <<Unwrap(most_common_key(d.db.current_history)),
                                 d.db.current_start, d.db.current_last>>)
                   ELSE d.events]
         ELSE [d EXCEPT !.db.gap_frames = @ + 1]
    ELSE d

\* consume_frame: d = [db, events]; detected is the detector's verdict of the frame.
\* A consume_frame that commits the key on the first frame without detection.
consume_frame_committing_on_first_gap(d, detected, frame_start, frame_end) ==
    IF IsSome(detected)
    THEN [d EXCEPT !.db.current = IF d.db.current = None THEN detected ELSE @,
                   !.db.current_start = IF d.db.current = None THEN frame_start ELSE @,
                   !.db.current_history = Append(@, Unwrap(detected)),
                   !.db.current_last = frame_end,
                   !.db.gap_frames = 0]
    ELSE IF IsSome(d.db.current)
    THEN [db |-> [d.db EXCEPT !.current = None, !.gap_frames = 0,
                              !.current_history = <<>>],
          events |->
              IF /\ Len(d.db.current_history) >= min_press_frames
                 /\ IsSome(most_common_key(d.db.current_history))
              THEN Append(d.events,
                          <<Unwrap(most_common_key(d.db.current_history)),
                            d.db.current_start, d.db.current_last>>)
              ELSE d.events]
    ELSE d

\* A consume_frame whose events end with the frame that confirms the release.
consume_frame_ending_at_release(d, detected, frame_start, frame_end) ==
    IF IsSome(detected)
    THEN [d EXCEPT !.db.current = IF d.db.current = None THEN detected ELSE @,
                   !.db.current_start = IF d.db.current = None THEN frame_start ELSE @,
                   !.db.current_history = Append(@, Unwrap(detected)),
                   !.db.current_last = frame_end,
                   !.db.gap_frames = 0]
    ELSE IF IsSome(d.db.current)
    THEN IF d.db.gap_frames + 1 >= min_gap_frames
         THEN [db |-> [d.db EXCEPT !.current = None, !.gap_frames = 0,
                                   !.current_history = <<>>],
               events |->
                   IF /\ Len(d.db.current_history) >= min_press_frames
                      /\ IsSome(most_common_key(d.db.current_history))
                   THEN Append(d.events,
                               <<Unwrap(most_common_key(d.db.current_history)),
                                 d.db.current_start, frame_end>>)
                   ELSE d.events]
         ELSE [d EXCEPT !.db.gap_frames = @ + 1]
    ELSE d

\* DtmfDebouncer::consume_frame (detect.rs:68-108).
consume_frame(d, detected, frame_start, frame_end) ==
    IF IsSome(detected)
    THEN [d EXCEPT !.db.current = IF d.db.current = None THEN detected ELSE @,
                   !.db.current_start = IF d.db.current = None THEN frame_start ELSE @,
                   !.db.current_history = Append(@, Unwrap(detected)),
                   !.db.current_last = frame_end,
                   !.db.gap_frames = 0]
    ELSE IF IsSome(d.db.current)
    THEN IF d.db.gap_frames + 1 >= min_gap_frames
         THEN [db |-> [d.db EXCEPT !.current = None, !.gap_frames = 0,
                                   !.current_history = <<>>],
               events |->
                   IF /\ Len(d.db.current_history) >= min_press_frames
                      /\ IsSome(most_common_key(d.db.current_history))
                   THEN Append(d.events,
                               <<Unwrap(most_common_key(d.db.current_history)),
                                 d.db.current_start, d.db.current_last>>)
                   ELSE d.events]
         ELSE [d EXCEPT !.db.gap_frames = @ + 1]
    ELSE d

\* The number of frames from frame k on, of at most `whole`, that consume_frame
\* leaves the debouncer unchanged on: no key is held and the detector's verdict
\* is None.
IdleFrames(d, k, whole, dets) ==
    IF IsSome(d.db.current) THEN 0
    ELSE LET heard == {j \in k..Min(Len(dets), k + whole - 1) : IsSome(dets[j])}
         IN IF heard = {} THEN whole
            ELSE (CHOOSE j \in heard : \A i \in heard : j <= i) - k

\* The loop of DtmfDebouncer::push over `len` samples, from offset pos.  The
\* detector's verdict on the k-th frame completed since the reset is dets[k]
\* (None beyond the end of dets).  The passes over a run of whole frames that
\* change nothing but the frame position are taken in one step.
RECURSIVE push_loop(_, _, _, _)
push_loop(d, pos, len, dets) ==
    IF pos >= len THEN d
    ELSE LET to_frame_end == frame_len - d.db.samples_in_frame
             take == Min(to_frame_end, len - pos)
             filled == d.db.samples_in_frame + take
             k == (pos + take) \div frame_len
             idle == IF d.db.samples_in_frame = 0
                     THEN IdleFrames(d, k, (len - pos) \div frame_len, dets)
                     ELSE 0
         IN IF idle > 0
            THEN push_loop(d, pos + idle * frame_len, len, dets)
            ELSE IF filled = frame_len
            THEN LET frame_end == pos + take - 1
                     frame_start == frame_end + 1 - frame_len
                     detected == IF k <= Len(dets) THEN dets[k] ELSE None
                 IN push_loop([consume_frame(d, detected, frame_start, frame_end)
                                  EXCEPT !.db.samples_in_frame = 0],
                              pos + take, len, dets)
            ELSE push_loop([d EXCEPT !.db.samples_in_frame = filled],
                           pos + take, len, dets)

\* DtmfDebouncer::push of `len` samples.
push(d, len, dets) == push_loop(d, 0, len, dets)

\* dtmf.reset(); dtmf.push(&message.samples): the events of one message.
push_events(len, dets) ==
    push([db |-> debouncer_reset, events |-> <<>>], len, dets).events

\* ------------------------------------------- DTMF debouncer, call after call
\* Positions are u64 values written in their two's-complement reading: a
\* negative number v stands for the u64 value 2^64 + v (what a subtraction that
\* wrapped around leaves), so equality of positions is equality of u64 values.

\* DtmfDetector::new: the window length n and the window's filter state, kept as
\* the stretches <<from, to>> of the stream the accumulators s1, s2 have absorbed
\* since the last reset of the detector.
detector_new(n) == [n |-> Max(1, n), s |-> <<>>, samples_seen |-> 0]

\* DtmfDetector::reset
detector_reset(det) == [det EXCEPT !.s = <<>>, !.samples_seen = 0]

\* A feed that takes the whole slice whatever the window has left.
feed_whole_slice(det, at, len) ==
    IF det.samples_seen >= det.n THEN det
    ELSE IF len = 0 THEN det
         ELSE [det EXCEPT !.s = Append(@, <<at, at + len>>),
                          !.samples_seen = @ + len]

\* DtmfDetector::feed of the `len` samples at stream position `at`.
feed(det, at, len) ==
    IF det.samples_seen >= det.n THEN det
    ELSE LET remaining == det.n - det.samples_seen
             used == Min(len, remaining)
         IN IF used = 0 THEN det
            ELSE [det EXCEPT !.s = Append(@, <<at, at + used>>),
                             !.samples_seen = @ + used]

\* DtmfDetector::finish: the verdict is computed from s1, s2 and the
\* coefficients, that is, from the samples the accumulators have absorbed; it
\* stands here as the verdict on those samples.
finish(det) ==
    [heard |-> IF det.s = <<>> THEN <<>>
               ELSE <<det.s[1][1], det.s[Len(det.s)][2]>>]

\* DtmfDebouncerBuilder::build with the defaults of DtmfDebouncerBuilder::new.
build ==
    [samples_in_frame |-> 0, current |-> None, gap_frames |-> 0,
     current_start |-> 0, current_last |-> 0, current_history |-> <<>>,
     detector |-> detector_new(Max(1, frame_len))]

\* A reset that leaves the key being tracked and its history in place.
reset_keeping_tracked_key(db) ==
    [db EXCEPT !.samples_in_frame = 0, !.gap_frames = 0,
               !.current_start = 0, !.current_last = 0,
               !.detector = detector_reset(@)]

\* DtmfDebouncer::reset
reset(db) ==
    [db EXCEPT !.samples_in_frame = 0, !.current = None, !.gap_frames = 0,
               !.current_start = 0, !.current_last = 0,
               !.current_history = <<>>, !.detector = detector_reset(@)]

\* The number of frames a push of `len` samples completes.
FramesCompleted(db, len) == (db.samples_in_frame + len) \div frame_len

\* The loop of DtmfDebouncer::push over a slice of `len` samples that begins at
\* stream position `at`, from offset pos of the slice.  d = [db, events, seen,
\* arith]: events are the events returned so far, seen the frames handed to
\* consume_frame, arith the outcome of the position arithmetic.  dets are the
\* verdicts of detector.finish() for the frames still to complete in this call.
\* frame_end = (pos + take) as u64 - 1 cannot wrap (take >= 1); frame_start =
\* frame_end + 1 - frame_len wraps below zero when the frame began in an earlier
\* call: with overflow checks (the dev profile) that subtraction panics, without
\* them (the release profile) it wraps around.
RECURSIVE push_slice_loop(_, _, _, _, _, _)
push_slice_loop(d, pos, len, dets, at, overflow_checks) ==
    IF pos >= len \/ d.arith = "panicked" THEN d
    ELSE LET to_frame_end == frame_len - d.db.samples_in_frame
             take == Min(to_frame_end, len - pos)
             fed == [d EXCEPT !.db.detector = feed(@, at + pos, take),
                              !.db.samples_in_frame = @ + take]
         IN IF fed.db.samples_in_frame = frame_len
            THEN LET detected == Head(dets)
                     finished == [fed EXCEPT !.db.detector = detector_reset(@)]
                     frame_end == pos + take - 1
                     frame_start == frame_end + 1 - frame_len
                     wraps == frame_end + 1 < frame_len
                 IN IF wraps /\ overflow_checks
                    THEN [finished EXCEPT !.arith = "panicked"]
                    ELSE LET c == consume_frame([db |-> finished.db,
                                                 events |-> finished.events],
                                                detected, frame_start, frame_end)
                         IN push_slice_loop(
                                [db |-> [c.db EXCEPT !.samples_in_frame = 0],
                                 events |-> c.events,
                                 seen |-> Append(fed.seen,
                                                 [detected |-> detected,
                                                  frame_start |-> frame_start,
                                                  frame_end |-> frame_end]),
                                 arith |-> IF wraps THEN "wrapped" ELSE fed.arith],
                                pos + take, len, Tail(dets), at, overflow_checks)
            ELSE push_slice_loop(fed, pos + take, len, dets, at, overflow_checks)

\* DtmfDebouncer::push of the slice of `len` samples at stream position `at`.
push_slice(d, len, dets, at, overflow_checks) ==
    push_slice_loop(d, 0, len, dets, at, overflow_checks)

\* ------------------------------------------------------------- CW encoder
\* A text is the sequence of its characters, each a one-character string; "NBSP"
\* stands for the one character U+00A0 (white space, two bytes in UTF-8).
\* The table, as the pairs <<key, pattern>>.
MORSE_TABLE ==
    <<
        <<"A", <<".", "-">>>>,
        <<"B", <<"-", ".", ".", ".">>>>,
        <<"C", <<"-", ".", "-", ".">>>>,
        <<"D", <<"-", ".", ".">>>>,
        <<"E", <<".">>>>,
        <<"F", <<".", ".", "-", ".">>>>,
        <<"G", <<"-", "-", ".">>>>,
        <<"H", <<".", ".", ".", ".">>>>,
        <<"I", <<".", ".">>>>,
        <<"J", <<".", "-", "-", "-">>>>,
        <<"K", <<"-", ".", "-">>>>,
        <<"L", <<".", "-", ".", ".">>>>,
        <<"M", <<"-", "-">>>>,
        <<"N", <<"-", ".">>>>,
        <<"O", <<"-", "-", "-">>>>,
        <<"P", <<".", "-", "-", ".">>>>,
        <<"Q", <<"-", "-", ".", "-">>>>,
        <<"R", <<".", "-", ".">>>>,
        <<"S", <<".", ".", ".">>>>,
        <<"T", <<"-">>>>,
        <<"U", <<".", ".", "-">>>>,
        <<"V", <<".", ".", ".", "-">>>>,
        <<"W", <<".", "-", "-">>>>,
        <<"X", <<"-", ".", ".", "-">>>>,
        <<"Y", <<"-", ".", "-", "-">>>>,
        <<"Z", <<"-", "-", ".", ".">>>>,
        <<"0", <<"-", "-", "-", "-", "-">>>>,
        <<"1", <<".", "-", "-", "-", "-">>>>,
        <<"2", <<".", ".", "-", "-", "-">>>>,
        <<"3", <<".", ".", ".", "-", "-">>>>,
        <<"4", <<".", ".", ".", ".", "-">>>>,
        <<"5", <<".", ".", ".", ".", ".">>>>,
        <<"6", <<"-", ".", ".", ".", ".">>>>,
        <<"7", <<"-", "-", ".", ".", ".">>>>,
        <<"8", <<"-", "-", "-", ".", ".">>>>,
        <<"9", <<"-", "-", "-", "-", ".">>>>,
        <<".", <<".", "-", ".", "-", ".", "-">>>>,
        <<",", <<"-", "-", ".", ".", "-", "-">>>>,
        <<"?", <<".", ".", "-", "-", ".", ".">>>>,
        <<"'", <<".", "-", "-", "-", "-", ".">>>>,
        <<"!", <<"-", ".", "-", ".", "-", "-">>>>,
        <<"/", <<"-", ".", ".", "-", ".">>>>,
        <<"(", <<"-", ".", "-", "-", ".">>>>,
        <<")", <<"-", ".", "-", "-", ".", "-">>>>,
        <<"&", <<".", "-", ".", ".", ".">>>>,
        <<":", <<"-", "-", "-", ".", ".", ".">>>>,
        <<";", <<"-", ".", "-", ".", "-", ".">>>>,
        <<"=", <<"-", ".", ".", ".", "-">>>>,
        <<"+", <<".", "-", ".", "-", ".">>>>,
        <<"-", <<"-", ".", ".", ".", ".", "-">>>>,
        <<"_", <<".", ".", "-", "-", ".", "-">>>>,
        <<"\"", <<".", "-", ".", ".", "-", ".">>>>,
        <<"$", <<".", ".", ".", "-", ".", ".", "-">>>>,
        <<"@", <<".", "-", "-", ".", "-", ".">>>>
    >>

TableKeys == {MORSE_TABLE[i][1] : i \in 1..Len(MORSE_TABLE)}
\* MORSE_TABLE.get(key), for a key of the table.
TableGet(key) ==
    MORSE_TABLE[CHOOSE i \in 1..Len(MORSE_TABLE) : MORSE_TABLE[i][1] = key][2]

LowerCase == <<"a", "b", "c", "d", "e", "f", "g", "h", "i", "j", "k", "l", "m",
               "n", "o", "p", "q", "r", "s", "t", "u", "v", "w", "x", "y", "z">>
UpperCase == <<"A", "B", "C", "D", "E", "F", "G", "H", "I", "J", "K", "L", "M",
               "N", "O", "P", "Q", "R", "S", "T", "U", "V", "W", "X", "Y", "Z">>

\* A look-up that leaves the case of the character as it is.
to_ascii_uppercase_identity(ch) == ch

\* char::to_ascii_uppercase
to_ascii_uppercase(ch) ==
    IF \E i \in 1..Len(LowerCase) : LowerCase[i] = ch
    THEN UpperCase[CHOOSE i \in 1..Len(LowerCase) : LowerCase[i] = ch]
    ELSE ch

\* char::is_whitespace, on the characters of the texts.
is_whitespace(ch) == ch \in {" ", "NBSP"}

\* An index that counts characters, not bytes.
len_utf8_one(ch) == 1

\* char::len_utf8: char_indices counts bytes.
len_utf8(ch) == IF ch = "NBSP" THEN 2 ELSE 1

\* push_units: units are TRUE (tone) and FALSE (gap).
push_units(bits, value, count) == bits \o [i \in 1..count |-> value]

\* An emit_symbol without the gap between the marks of a pattern.
RECURSIVE emit_symbol_without_gaps(_, _)
emit_symbol_without_gaps(bits, pattern) ==
    IF pattern = <<>> THEN bits
    ELSE emit_symbol_without_gaps(
             IF Head(pattern) = "." THEN push_units(bits, TRUE, 1)
             ELSE IF Head(pattern) = "-" THEN push_units(bits, TRUE, 3)
             ELSE bits,
             Tail(pattern))

RECURSIVE emit_symbol(_, _)
emit_symbol(bits, pattern) ==
    IF pattern = <<>> THEN bits
    ELSE LET marked == IF Head(pattern) = "." THEN push_units(bits, TRUE, 1)
                       ELSE IF Head(pattern) = "-" THEN push_units(bits, TRUE, 3)
                       ELSE bits
         IN emit_symbol(IF Tail(pattern) # <<>> THEN push_units(marked, FALSE, 1)
                        ELSE marked,
                        Tail(pattern))

Ok(bits) == [ok |-> TRUE, bits |-> bits]
UnknownSymbol(sym) == [ok |-> FALSE, err |-> <<"UnknownSymbol", sym>>]
UnterminatedProsign(position) == [ok |-> FALSE, err |-> <<"UnterminatedProsign", position>>]

\* An encode loop in which white space leaves last_was_symbol as it is: every
\* white space character after a symbol pushes 7 gap units, and the next
\* character its 3.
RECURSIVE encode_loop_gap_per_space(_, _, _, _)
encode_loop_gap_per_space(text, i, idx, e) ==
    IF i > Len(text)
    THEN IF e.in_prosign THEN UnterminatedProsign(e.prosign_start) ELSE Ok(e.bits)
    ELSE LET ch == text[i]
             next == idx + len_utf8(ch)
         IN IF ch = "<"
            THEN IF e.in_prosign THEN UnknownSymbol("<")
                 ELSE encode_loop_gap_per_space(
                          text, i + 1, next,
                          [e EXCEPT !.in_prosign = TRUE, !.prosign_start = idx])
            ELSE IF ch = ">"
            THEN IF ~e.in_prosign THEN UnknownSymbol(">")
                 ELSE encode_loop_gap_per_space(text, i + 1, next,
                                                [e EXCEPT !.in_prosign = FALSE])
            ELSE IF is_whitespace(ch)
            THEN IF e.in_prosign THEN encode_loop_gap_per_space(text, i + 1, next, e)
                 ELSE IF e.last_was_symbol
                 THEN encode_loop_gap_per_space(
                          text, i + 1, next,
                          [e EXCEPT !.bits = push_units(@, FALSE, 7)])
                 ELSE encode_loop_gap_per_space(text, i + 1, next, e)
            ELSE LET spaced == IF e.last_was_symbol /\ ~e.in_prosign
                               THEN push_units(e.bits, FALSE, 3)
                               ELSE e.bits
                     key == to_ascii_uppercase(ch)
                 IN IF key \notin TableKeys THEN UnknownSymbol(ch)
                    ELSE encode_loop_gap_per_space(
                             text, i + 1, next,
                             [e EXCEPT !.bits = emit_symbol(spaced, TableGet(key)),
                                       !.last_was_symbol = TRUE])

\* The loop of encode_units from the i-th character on, which lies at byte idx;
\* e = [bits, in_prosign, last_was_symbol, prosign_start].
RECURSIVE encode_loop(_, _, _, _)
encode_loop(text, i, idx, e) ==
    IF i > Len(text)
    THEN IF e.in_prosign THEN UnterminatedProsign(e.prosign_start) ELSE Ok(e.bits)
    ELSE LET ch == text[i]
             next == idx + len_utf8(ch)
         IN IF ch = "<"
            THEN IF e.in_prosign THEN UnknownSymbol("<")
                 ELSE encode_loop(text, i + 1, next,
                                  [e EXCEPT !.in_prosign = TRUE, !.prosign_start = idx])
            ELSE IF ch = ">"
            THEN IF ~e.in_prosign THEN UnknownSymbol(">")
                 ELSE encode_loop(text, i + 1, next, [e EXCEPT !.in_prosign = FALSE])
            ELSE IF is_whitespace(ch)
            THEN IF e.in_prosign THEN encode_loop(text, i + 1, next, e)
                 ELSE IF e.last_was_symbol
                 THEN encode_loop(text, i + 1, next,
                                  [e EXCEPT !.bits = push_units(@, FALSE, 7),
                                            !.last_was_symbol = FALSE])
                 ELSE encode_loop(text, i + 1, next, e)
            ELSE LET spaced == IF e.last_was_symbol /\ ~e.in_prosign
                               THEN push_units(e.bits, FALSE, 3)
                               ELSE e.bits
                     key == to_ascii_uppercase(ch)
                 IN IF key \notin TableKeys THEN UnknownSymbol(ch)
                    ELSE encode_loop(text, i + 1, next,
                                     [e EXCEPT !.bits = emit_symbol(spaced, TableGet(key)),
                                               !.last_was_symbol = TRUE])

encode_units(text) ==
    encode_loop(text, 1, 0,
                [bits |-> <<>>, in_prosign |-> FALSE, last_was_symbol |-> FALSE,
                 prosign_start |-> 0])

\* ----------------------------------------------------------- CW modulator
\* The oscillator is the count of samples it has advanced by: osc.next() and
\* osc.advance(1) both move it by one.  A keyed stretch is a run of kind
\* "tone" that begins at that count.
unit_run(gate, osc) ==
    IF gate THEN <<Run("tone", osc, unit_samples, 0)>> ELSE Zeros(unit_samples)

\* out[offset .. offset + VLen(w)] overwritten by w.
Overwrite(out, offset, w) ==
    Extend(Extend(VTake(out, offset), w), VDrop(out, offset + VLen(w)))

\* A modulate that takes the next unit before it looks whether the buffer has
\* room for it.
RECURSIVE modulate_loop_taking_first(_, _)
modulate_loop_taking_first(m, offset) ==
    IF m.units = <<>> THEN [m EXCEPT !.written = offset]
    ELSE IF offset + unit_samples > VLen(m.out)
    THEN [m EXCEPT !.units = Tail(@), !.written = offset]
    ELSE modulate_loop_taking_first(
             [m EXCEPT !.units = Tail(@),
                       !.out = Overwrite(@, offset, unit_run(Head(m.units), m.osc)),
                       !.osc = @ + unit_samples],
             offset + unit_samples)

\* The loop of CwModulator::modulate; m = [units, out, osc, written]: the
\* iterator, the buffer, the oscillator, the count returned.
RECURSIVE modulate_loop(_, _)
modulate_loop(m, offset) ==
    IF offset + unit_samples <= VLen(m.out) /\ m.units # <<>>
    THEN modulate_loop(
             [m EXCEPT !.units = Tail(@),
                       !.out = Overwrite(@, offset, unit_run(Head(m.units), m.osc)),
                       !.osc = @ + unit_samples],
             offset + unit_samples)
    ELSE [m EXCEPT !.written = offset]

modulate(units, out, osc) ==
    modulate_loop([units |-> units, out |-> out, osc |-> osc, written |-> 0], 0)

\* ------------------------------------------------------------ the playback side
\* The first loop of the output callback: pending goes to the ring, front first,
\* until the ring is full.
fill_ring(p) ==
    LET k == Min(OUTPUT_RING_CAP - VLen(p.ring), VLen(p.pending))
    IN [p EXCEPT !.ring = Extend(@, VTake(p.pending, k)),
                 !.pending = VDrop(@, k)]

\* The second loop: every chunk the channel holds goes to the back of pending.
RECURSIVE receive_chunks(_)
receive_chunks(p) ==
    IF p.ch = <<>> THEN p
    ELSE receive_chunks([p EXCEPT !.ch = Tail(@),
                                  !.pending = Extend(@, Head(p.ch))])

\* The third loop: one sample of the ring per frame, 0.0 once the ring is empty.
write_frames(p, frames) ==
    LET got == Min(frames, VLen(p.ring))
    IN [p EXCEPT !.left = Extend(Extend(@, VTake(p.ring, got)), Zeros(frames - got)),
                 !.ring = VDrop(@, got)]

output_callback(p, frames) == write_frames(receive_chunks(fill_ring(p)), frames)

\* ------------------------------------------------------------ DTMF commands
split_step(acc, ev, message_start, gap_limit) ==
    LET abs_end == saturating_add(message_start, ev[3])
        cut == /\ IsSome(acc.last_end)
               /\ saturating_sub(abs_end, Unwrap(acc.last_end)) > gap_limit
               /\ acc.current # <<>>
    IN [sequences |-> IF cut THEN Append(acc.sequences, acc.current) ELSE acc.sequences,
        current |-> Append(IF cut THEN <<>> ELSE acc.current, ev[1]),
        last_end |-> Some(abs_end)]

RECURSIVE split_loop(_, _, _, _)
split_loop(acc, events, message_start, gap_limit) ==
    IF events = <<>> THEN acc
    ELSE split_loop(split_step(acc, events[1], message_start, gap_limit),
                    Tail(events), message_start, gap_limit)

split_dtmf_sequences(events, message_start) ==
    LET r == split_loop([sequences |-> <<>>, current |-> <<>>, last_end |-> None],
                        events, message_start,
                        samples_from_millis(DTMF_COMMAND_GAP_MS))
    IN IF r.current # <<>> THEN Append(r.sequences, r.current) ELSE r.sequences

\* seq.contains("##")
ContainsHashHash(seq) ==
    \E i \in 1..(Len(seq) - 1) : seq[i] = "#" /\ seq[i + 1] = "#"

\* ------------------------------------------------------------ tone suppression
\* collect_event_ranges taking `end` as the end of the range, one past nothing.
RECURSIVE collect_event_ranges_exclusive_end(_, _)
collect_event_ranges_exclusive_end(len, events) ==
    IF events = <<>> THEN <<>>
    ELSE LET start == events[1][2]
             end == Min(events[1][3], saturating_sub(len, 1))
         IN (IF start >= len THEN <<>> ELSE << <<start, end>> >>)
            \o collect_event_ranges_exclusive_end(len, Tail(events))

RECURSIVE collect_event_ranges(_, _)
collect_event_ranges(len, events) ==
    IF events = <<>> THEN <<>>
    ELSE LET start == events[1][2]
             end == Min(events[1][3], saturating_sub(len, 1))
         IN (IF start >= len THEN <<>> ELSE << <<start, saturating_add(end, 1)>> >>)
            \o collect_event_ranges(len, Tail(events))

\* fill_band_limited_gaussian_noise on samples[start..end]: the generator restarts
\* from its fixed seed on every call.
fill_noise(samples, start, end) ==
    Extend(Extend(VTake(samples, start),
                  IF end > start THEN <<Run("noise", 0, end - start, 0)>> ELSE <<>>),
           VDrop(samples, end))

RECURSIVE fill_ranges(_, _)
fill_ranges(samples, ranges) ==
    IF samples = <<>> \/ ranges = <<>> THEN samples
    ELSE fill_ranges(fill_noise(samples, ranges[1][1], ranges[1][2]), Tail(ranges))

\* The ranges of the events of one push are already in increasing order, which
\* sort_unstable_by_key keeps.
suppress_dtmf(samples, events) ==
    IF events = <<>> THEN samples
    ELSE fill_ranges(samples, collect_event_ranges(VLen(samples), events))

\* ------------------------------------------------------------ recordings
\* The recordings directory is the sequence of its .ogg files in file name
\* (time stamp) order; a file holds the number of samples encoded into it.
\* Opus is lossy and encodes whole frames: decoding yields other samples, one
\* OPUS_FRAME_SAMPLES frame per packet.
decoded_len(len) ==
    ((len + OPUS_FRAME_SAMPLES - 1) \div OPUS_FRAME_SAMPLES) * OPUS_FRAME_SAMPLES

latest_recording_path(dir) == IF dir = <<>> THEN None ELSE Some(Len(dir))

\* read_recording(path) when it succeeds.
read_recording(dir, path) ==
    IF dir[path].len = 0 THEN <<>>
    ELSE <<Run("rec", 0, decoded_len(dir[path].len), path)>>

\* write_recording(dir, samples) when it succeeds.
write_recording(dir, samples) == Append(dir, [len |-> VLen(samples)])


\* ------------------------------------------------------------------- state
VARIABLES
    sample_cursor,      \* capture: frames delivered so far (the capture clock)
    block_len,          \* capture: block.len()
    cap_message,        \* capture: message (the burst in progress)
    in_connected,       \* the input stream (the Sender of input_tx) is alive
    input_ch,           \* capture -> control channel
    cap_steps,          \* capture steps taken
    faults,             \* failed recording operations so far
    pc,                 \* control: "recv_first", "recv_next", "process", "failed"
    clock,              \* control: wall clock, in samples
    combined,           \* read_message: combined
    last_end,           \* read_message: last_end
    asm,                \* log of the assembly of the current message
    state,              \* RepeaterState
    last_id,            \* Option<u64>
    last_message_end,   \* Option<u64>
    output_ch,          \* control -> playback channel
    out_connected,      \* the output stream (the Receiver of output_rx) is alive
    recordings,         \* the recordings directory
    iter                \* log of the last completed loop iteration

vars == <<sample_cursor, block_len, cap_message, in_connected, input_ch, cap_steps,
          pc, clock, combined, last_end, asm, state, last_id, last_message_end,
          output_ch, out_connected, recordings, iter, faults>>

capture_vars == <<sample_cursor, block_len, cap_message, in_connected, input_ch,
                  cap_steps>>
read_vars == <<combined, last_end, asm>>
loop_vars == <<state, last_id, last_message_end, recordings, iter, faults>>

\* The debouncer driven call by call, apart from the control loop.
VARIABLES
    dtmf,               \* the debouncer and, since its last reset, the events
                        \* returned, the frames seen, the outcome of its arithmetic
    twin,               \* a debouncer built at that reset and given the same pushes
    pushed,             \* samples pushed since the last reset
    overflow_checks,    \* the build profile: overflow-checks on (dev) or off (release)
    resets,             \* calls of reset so far
    before_reset        \* the last reset found a partial frame and a tracked key

dtmf_vars == <<dtmf, twin, pushed, overflow_checks, resets, before_reset>>

\* The CW encoder applied to a text.
VARIABLES
    cw_text,            \* the text given to encode_units
    cw_result           \* None, or Some of what encode_units returned for it

cw_vars == <<cw_text, cw_result>>

\* The CW modulator filling buffer after buffer from one iterator of units.
VARIABLES
    cw_units,           \* the units given, and the iterator over them (what is left)
    cw_osc,             \* the oscillator
    cw_call,            \* the last call of modulate: the buffer after it, the
                        \* count returned, the units taken; and the calls so far
    cw_emitted          \* the samples written by all calls, joined

mod_vars == <<cw_units, cw_osc, cw_call, cw_emitted>>

\* The playback side: the output callback fed by the control -> playback channel.
VARIABLES
    play_ch,            \* the buffers sent and not yet received by the callback
    pending,            \* pending: samples received, not yet in the ring
    ring,               \* the output ring
    left_out,           \* frame[0] of every frame written so far, output_level apart
    play_sent,          \* per buffer sent: its length, and whether the buffer
                        \* before it was still playing when it was sent
    callbacks           \* calls of the output callback so far

play_vars == <<play_ch, pending, ring, left_out, play_sent, callbacks>>

\* suppress_dtmf applied to a message and the key events found in it.
VARIABLES
    sup_samples,        \* the message before the call
    sup_events,         \* the events: (key, start, end)
    sup_out             \* None, or Some of the message after the call

sup_vars == <<sup_samples, sup_events, sup_out>>

\* A DtmfDetector fed, finished and reset call by call.
VARIABLES
    goertzel,           \* the detector
    offered,            \* samples offered to feed so far, and at its last reset;
                        \* the calls so far
    det_last            \* the last call: which, the detector before it, what it
                        \* returned, and what the call before returned if a finish

det_vars == <<goertzel, offered, det_last>>

\* The control loop with its clocks left out: which wait it is in, what the
\* capture side has queued, and how far the ID deadline is.
VARIABLES
    live                \* pc: "recv_first", "recv_next" (the loop of read_message)
                        \* or "process"; state: RepeaterState; has_id, has_end:
                        \* last_id, last_message_end are Some; left: what
                        \* end_sample lacks to make will_expire true, 0 once it is
                        \* true; ch: chunks queued on the input channel; out: the
                        \* last buffer sent carried the callsign or not

live_vars == <<live>>

\* The keys of the messages of the control loop, one message after the other:
\* dtmf.reset(), dtmf.push(&message.samples) and what the loop body derives
\* from the events.
VARIABLES
    keyed               \* n: messages handled; len, dets: the samples of the last
                        \* message and the detector's verdicts on its frames;
                        \* events: what push returned; db: the debouncer after
                        \* the push; sequences, ranges: the digit strings and the
                        \* ranges suppressed; left_over: the key that was being
                        \* tracked when reset() was called

keyed_vars == <<keyed>>

unit_vars ==
    <<dtmf_vars, cw_vars, mod_vars, play_vars, sup_vars, det_vars, live_vars, keyed_vars>>

\* What the actions of one unit leave alone: the control loop, the other units.
beside_dtmf == <<vars, cw_vars, mod_vars, play_vars, sup_vars, det_vars, live_vars, keyed_vars>>
beside_cw == <<vars, dtmf_vars, mod_vars, play_vars, sup_vars, det_vars, live_vars, keyed_vars>>
beside_mod == <<vars, dtmf_vars, cw_vars, play_vars, sup_vars, det_vars, live_vars, keyed_vars>>
beside_play == <<vars, dtmf_vars, cw_vars, mod_vars, sup_vars, det_vars, live_vars, keyed_vars>>
beside_sup == <<vars, dtmf_vars, cw_vars, mod_vars, play_vars, det_vars, live_vars, keyed_vars>>
beside_det == <<vars, dtmf_vars, cw_vars, mod_vars, play_vars, sup_vars, live_vars, keyed_vars>>
beside_live == <<vars, dtmf_vars, cw_vars, mod_vars, play_vars, sup_vars, det_vars, keyed_vars>>
beside_keyed == <<vars, dtmf_vars, cw_vars, mod_vars, play_vars, sup_vars, det_vars, live_vars>>


\* ------------------------------------------------------------------ inputs
\* Lengths, in blocks, of the bursts the capture side hears.
BurstBlocks == {1, 116}
\* A burst longer than the idle timeout (32.8 s); it is the first thing heard.
LongBursts == {1536}
\* Energy verdicts of the blocks of one large callback in which two bursts end.
MixedLoud == <<TRUE, FALSE, TRUE, FALSE>>
\* Wall-clock time one pass of the loop body may take (encoding the recording).
ProcessingTimes == {0, samples_from_secs(3)}
\* Outcomes of write_recording: written, failed before the file was created,
\* failed after File::create (an empty .ogg file is left behind).
WriteOutcomes == {"ok", "err", "partial"}

Rep(x, n) == [i \in 1..n |-> x]
Hash == Some("#")
\* Detector verdicts per frame.  A press of 2 frames, released for 3 frames.
Press == Rep(Hash, DEFAULT_MIN_PRESS_FRAMES) \o Rep(None, DEFAULT_MIN_GAP_FRAMES)
\* Frames of silence that put two presses more than the command gap apart.
LongGap == Rep(None, samples_from_millis(DTMF_COMMAND_GAP_MS) \div frame_len + 1
                      - (DEFAULT_MIN_PRESS_FRAMES + DEFAULT_MIN_GAP_FRAMES))
DetectionPatterns ==
    { <<>>,
      Press \o Press,
      Press \o LongGap \o Press,
      Press \o Press \o LongGap \o Press \o Press }

\* ------------------------------------------------------------------- Init
Init ==
    /\ sample_cursor = 0
    /\ block_len = 0
    /\ cap_message = <<>>
    /\ in_connected = TRUE
    /\ input_ch = <<>>
    /\ cap_steps = 0
    /\ faults = 0
    /\ pc = "recv_first"
    /\ clock = 0
    /\ combined = <<>>
    /\ last_end = 0
    /\ asm = [first_start |-> 0, true_end |-> 0, merges |-> <<>>,
              split |-> None, prev |-> None, closed |-> "no"]
    /\ state = "Idle"
    /\ last_id = None
    /\ last_message_end = None
    /\ output_ch = <<>>
    /\ out_connected = TRUE
    /\ recordings = <<>>
    /\ iter = [kind |-> "start"]


\* ------------------------------------------------------------ capture thread
\* The stream positions a chunk's samples were captured at: [TrueStart, TrueEnd).
TrueStart(chunk) == chunk.samples[1].a
TrueEnd(chunk) == chunk.samples[1].a + chunk.samples[1].n

\* Deadline with the idle timeout armed in every state.
Deadline_in_every_state ==
    IF pc = "recv_next"
    THEN Some(clock + samples_from_millis(CONTINUITY_GAP_MS))
    ELSE Some(clock + samples_from_secs(ID_IDLE_SECS))

\* The deadline of the control thread's current wait, if it has one.
Deadline ==
    IF pc = "recv_next"
    THEN Some(clock + samples_from_millis(CONTINUITY_GAP_MS))
    ELSE IF pc = "recv_first" /\ state = "MidConversation"
    THEN Some(clock + samples_from_secs(ID_IDLE_SECS))
    ELSE None

\* The capture thread never reads anything the control thread writes, and what
\* a receive returns depends only on the instants of the sends.  So the capture
\* side is advanced only when the control thread waits on an empty channel whose
\* deadline the capture clock has not passed: every timed interleaving of the
\* two threads is one of these runs.
CaptureNeeded ==
    /\ in_connected
    /\ pc \in {"recv_first", "recv_next"}
    /\ input_ch = <<>>
    /\ IsSome(Deadline) => sample_cursor < Unwrap(Deadline)

Cap == [cursor |-> sample_cursor, block |-> block_len, message |-> cap_message,
        sent |-> <<>>]

CaptureTo(c) ==
    /\ sample_cursor' = c.cursor
    /\ block_len' = c.block
    /\ cap_message' = c.message
    /\ input_ch' = input_ch \o c.sent
    /\ cap_steps' = cap_steps + 1
    /\ UNCHANGED <<in_connected, pc, clock, read_vars, loop_vars,
                   output_ch, out_connected>>

\* The silences before a burst: none and, before a one-block burst, a pause
\* just over the continuity gap and, while the loop is Idle with an ID on
\* record, the pauses after which it is sent with end_sample next to the ID
\* deadline; before a longer burst, in that state, the pause after which its
\* ID-less transmission ends one sample short of the deadline.  (The
\* silence that lets a wait of the control thread time out is part of the
\* timeout, see SilenceUntil.)
Pauses(n) ==
    LET due == Unwrap(last_id) + samples_from_secs(ID_INTERVAL_SECS)
        base == transmit_len(n * ENERGY_BLOCK, VLen(callsign_samples), FALSE)
        burst == (n + 1) * ENERGY_BLOCK
    IN {0}
       \cup (IF n = 1 THEN {samples_from_millis(CONTINUITY_GAP_MS) + ENERGY_BLOCK}
             ELSE {})
       \cup (IF n = 1 /\ pc = "recv_first" /\ state = "Idle" /\ IsSome(last_id)
             THEN {t - burst - sample_cursor : t \in {due - 1, due - base - 1, due - base}}
             ELSE {})
       \cup (IF n > 1 /\ pc = "recv_first" /\ state = "Idle" /\ IsSome(last_id)
             THEN {due - base - 1 - burst - sample_cursor}
             ELSE {})

\* The bursts that may follow in the current state.
Bursts == BurstBlocks \cup (IF cap_steps = 0 THEN LongBursts ELSE {})

\* A burst: the callbacks of a pause, n callbacks of loud blocks, then the
\* callback of the silent block that ends the burst.
CaptureBurst ==
    /\ CaptureNeeded
    /\ cap_steps < MaxCapture
    /\ cap_message = <<>>
    /\ \E n \in Bursts : \E pause \in Pauses(n) :
          /\ pause >= 0
          /\ CaptureTo(input_callback(loud_span(quiet_span(Cap, pause), n),
                                      ENERGY_BLOCK, <<FALSE>>))

\* One large callback in which two bursts end.
CaptureMixed ==
    /\ CaptureNeeded
    /\ cap_steps < MaxCapture
    /\ CaptureTo(input_callback(Cap, Len(MixedLoud) * ENERGY_BLOCK, MixedLoud))

\* The input stream dies: the callback, and with it input_tx, is dropped.
CaptureDisconnect ==
    /\ CaptureNeeded
    /\ faults < MaxFaults
    /\ in_connected' = FALSE
    /\ faults' = faults + 1
    /\ UNCHANGED <<sample_cursor, block_len, cap_message, input_ch, cap_steps,
                   pc, clock, read_vars, state, last_id, last_message_end,
                   recordings, iter, output_ch, out_connected>>

\* ----------------------------------------------------------- playback thread
\* output_ch holds every buffer the control thread has sent, in order; the
\* output callback, which takes them from the channel, never acts on the
\* control thread.  The output stream dies: the callback, and with it
\* output_rx, is dropped.  Only a send observes it, so it is taken where the
\* control thread is about to send.
OutputDisconnect ==
    /\ out_connected
    /\ pc = "process" \/ (pc = "recv_first" /\ state = "MidConversation")
    /\ faults < MaxFaults
    /\ out_connected' = FALSE
    /\ faults' = faults + 1
    /\ UNCHANGED <<capture_vars, pc, clock, read_vars, state, last_id,
                   last_message_end, recordings, iter, output_ch>>

\* output_tx.send(out): Err, and nothing queued, once the receiver is gone.
SendOk == out_connected
send(ch, out) == IF SendOk THEN Append(ch, out) ELSE ch


\* ------------------------------------------------------------- read_message
Front == input_ch[1]

\* recv / recv_timeout with deadline d (None: recv) returns a chunk: the chunk
\* is queued already, or is sent before the deadline.
RecvOk(d) == /\ input_ch # <<>>
             /\ IsSome(d) => Front.at <= Unwrap(d)
\* recv_timeout returns Timeout: nothing is sent up to the deadline.  Either
\* the next chunk is sent after it, or the capture side stays silent until the
\* deadline has passed (SilenceUntil).
RecvTimeout(d) == /\ IsSome(d)
                  /\ \/ input_ch = <<>> /\ sample_cursor >= Unwrap(d)
                     \/ input_ch = <<>> /\ in_connected /\ cap_message = <<>>
                     \/ input_ch # <<>> /\ Front.at > Unwrap(d)
\* The capture side of a timeout: silent callbacks up to just after d.
SilenceUntil(d) ==
    LET c == IF input_ch = <<>> /\ sample_cursor < d
             THEN quiet_span(Cap, d + 1 - sample_cursor) ELSE Cap
    IN /\ sample_cursor' = c.cursor
       /\ block_len' = c.block
       /\ UNCHANGED <<cap_message, in_connected, input_ch, cap_steps>>
\* recv / recv_timeout returns Disconnected: the channel is empty and the
\* sender was dropped before the deadline.
RecvDisconnected(d) == /\ input_ch = <<>>
                       /\ ~in_connected
                       /\ IsSome(d) => sample_cursor <= Unwrap(d)

\* Lines 135-147: the first chunk of a message.
RecvFirstOk ==
    /\ pc = "recv_first"
    /\ RecvOk(Deadline)
    /\ combined' = Front.samples
    /\ last_end' = Front.end_sample
    /\ asm' = [first_start |-> Front.end_sample - VLen(Front.samples),
               true_end |-> TrueEnd(Front),
               merges |-> <<>>,
               split |-> IF IsSome(asm.prev)
                         THEN Some([sep |-> (Front.end_sample - VLen(Front.samples))
                                            - Unwrap(asm.prev).end_sample,
                                    true_sep |-> TrueStart(Front)
                                                 - Unwrap(asm.prev).true_end])
                         ELSE None,
               prev |-> asm.prev,
               closed |-> "no"]
    /\ input_ch' = Tail(input_ch)
    /\ clock' = Max(clock, Front.at)
    /\ pc' = "recv_next"
    /\ UNCHANGED <<sample_cursor, block_len, cap_message, in_connected, cap_steps,
                   loop_vars, output_ch, out_connected>>

\* Lines 85-96 of main: read_message returned None.
RecvFirstTimeout ==
    /\ pc = "recv_first"
    /\ RecvTimeout(Deadline)
    /\ LET out == build_transmit_message(<<>>, callsign_samples, TRUE)
           now == saturating_add(Unwrap(last_message_end),
                                 samples_from_secs(ID_IDLE_SECS))
       IN /\ IF IsSome(last_message_end)
             THEN /\ output_ch' = send(output_ch, out)
                  /\ last_id' = Some(saturating_add(now, VLen(out)))
             ELSE UNCHANGED <<output_ch, last_id>>
          /\ iter' = [kind |-> "idle_id",
                      tx |-> IF IsSome(last_message_end) THEN <<out>> ELSE <<>>,
                      last_id_before |-> last_id,
                      state_before |-> state,
                      send_ok |-> SendOk,
                      out_before |-> output_ch]
    /\ state' = "Idle"
    /\ clock' = Unwrap(Deadline)
    /\ pc' = "recv_first"
    /\ SilenceUntil(Unwrap(Deadline))
    /\ UNCHANGED <<read_vars, last_message_end, recordings, faults, out_connected>>

\* Lines 139-143: the input channel is disconnected; main returns the error.
RecvFirstDisconnected ==
    /\ pc = "recv_first"
    /\ RecvDisconnected(Deadline)
    /\ clock' = Max(clock, sample_cursor)
    /\ pc' = "failed"
    /\ UNCHANGED <<capture_vars, read_vars, loop_vars, output_ch, out_connected>>

\* Lines 150-157: a further chunk is absorbed.
RecvNextOk ==
    /\ pc = "recv_next"
    /\ RecvOk(Deadline)
    /\ LET next == Front
           next_start == saturating_sub(next.end_sample, VLen(next.samples))
           gap_samples == saturating_sub(next_start, last_end)
       IN /\ combined' = Extend(Extend(combined, Zeros(gap_samples)), next.samples)
          /\ last_end' = next.end_sample
          /\ asm' = [asm EXCEPT
                       !.true_end = TrueEnd(next),
                       !.merges = Append(@,
                           [sep |-> (next.end_sample - VLen(next.samples)) - last_end,
                            true_sep |-> TrueStart(next) - asm.true_end,
                            zeros |-> gap_samples])]
    /\ input_ch' = Tail(input_ch)
    /\ clock' = Max(clock, Front.at)
    /\ pc' = "recv_next"
    /\ UNCHANGED <<sample_cursor, block_len, cap_message, in_connected, cap_steps,
                   loop_vars, output_ch, out_connected>>

\* Lines 158-166: Timeout or Disconnected ends the assembly; the message is
\* returned.
RecvNextEnd ==
    /\ pc = "recv_next"
    /\ \/ /\ RecvTimeout(Deadline)
          /\ clock' = Unwrap(Deadline)
          /\ SilenceUntil(Unwrap(Deadline))
          /\ asm' = [asm EXCEPT !.closed = "timeout",
                                !.prev = Some([end_sample |-> last_end,
                                               true_end |-> asm.true_end])]
       \/ /\ RecvDisconnected(Deadline)
          /\ clock' = Max(clock, sample_cursor)
          /\ UNCHANGED capture_vars
          /\ asm' = [asm EXCEPT !.closed = "disconnected",
                                !.prev = Some([end_sample |-> last_end,
                                               true_end |-> asm.true_end])]
    /\ pc' = "process"
    /\ UNCHANGED <<combined, last_end, loop_vars, output_ch, out_connected>>


\* --------------------------------------------------------- transmit_message
\* will_expire with the length of the tentative transmission left out.
will_expire_ignoring_len(message_end, base_len, lid) ==
    IF IsSome(lid)
    THEN message_end >= saturating_add(Unwrap(lid), samples_from_secs(ID_INTERVAL_SECS))
    ELSE TRUE

\* will_expire with > in place of >=.
will_expire_strict(message_end, base_len, lid) ==
    IF IsSome(lid)
    THEN saturating_add(message_end, base_len)
         > saturating_add(Unwrap(lid), samples_from_secs(ID_INTERVAL_SECS))
    ELSE TRUE

\* Lines 186-192: is the station ID due with this message?
will_expire(message_end, base_len, lid) ==
    LET id_due == IF IsSome(lid)
                  THEN Some(saturating_add(Unwrap(lid),
                                           samples_from_secs(ID_INTERVAL_SECS)))
                  ELSE None
    IN IF IsSome(id_due)
       THEN saturating_add(message_end, base_len) >= Unwrap(id_due)
       ELSE TRUE

\* transmit_message reporting the end of the message as that of the transmission.
transmit_message_ends_with_message(samples, end_sample, callsign, lid) ==
    LET base_len == transmit_len(VLen(samples), VLen(callsign), FALSE)
        expire == will_expire(end_sample, base_len, lid)
    IN [out |-> build_transmit_message(samples, callsign, expire),
        sent_callsign |-> expire,
        transmission_end_sample |-> end_sample]

\* The buffer handed to output_tx.send and the TransmitResult.
transmit_message(samples, end_sample, callsign, lid) ==
    LET base_len == transmit_len(VLen(samples), VLen(callsign), FALSE)
        expire == will_expire(end_sample, base_len, lid)
        out == build_transmit_message(samples, callsign, expire)
    IN [out |-> out,
        sent_callsign |-> expire,
        transmission_end_sample |-> saturating_add(end_sample, VLen(out))]

\* ------------------------------------------------------ handle_dtmf_commands
HasReplayCommand(sequences) ==
    \E i \in 1..Len(sequences) : ContainsHashHash(sequences[i])

\* handle_dtmf_commands replaying with the callsign appended.
handle_dtmf_commands_with_id(events, message_start, dir, callsign, read_ok) ==
    LET sequences == split_dtmf_sequences(events, message_start)
        path == latest_recording_path(dir)
    IN IF ~HasReplayCommand(sequences) \/ path = None \/ ~read_ok THEN <<>>
       ELSE <<build_transmit_message(read_recording(dir, Unwrap(path)), callsign, TRUE)>>

\* handle_dtmf_commands sending a buffer although read_recording failed.
handle_dtmf_commands_ignoring_read_error(events, message_start, dir, callsign, read_ok) ==
    LET sequences == split_dtmf_sequences(events, message_start)
        path == latest_recording_path(dir)
    IN IF ~HasReplayCommand(sequences) \/ path = None THEN <<>>
       ELSE IF read_ok
       THEN <<build_transmit_message(read_recording(dir, Unwrap(path)), callsign, FALSE)>>
       ELSE <<build_transmit_message(<<>>, callsign, FALSE)>>

\* The buffers handle_dtmf_commands hands to output_tx.send (none or one);
\* read_ok: read_recording returns Ok.
handle_dtmf_commands(events, message_start, dir, callsign, read_ok) ==
    LET sequences == split_dtmf_sequences(events, message_start)
        path == latest_recording_path(dir)
    IN IF ~HasReplayCommand(sequences) THEN <<>>
       ELSE IF path = None THEN <<>>
       ELSE IF read_ok
       THEN <<build_transmit_message(read_recording(dir, Unwrap(path)), callsign, FALSE)>>
       ELSE <<>>

\* read_recording is called by this pass of the loop.
ReplayAttempted(events, message_start, dir) ==
    /\ HasReplayCommand(split_dtmf_sequences(events, message_start))
    /\ IsSome(latest_recording_path(dir))

RECURSIVE send_all(_, _)
send_all(ch, bufs) ==
    IF bufs = <<>> THEN ch ELSE send_all(send(ch, bufs[1]), Tail(bufs))

\* ------------------------------------------------------------ the loop body
\* The upsets of one pass of the loop body.
Upsets(write, read_ok, busy) ==
    (IF write # "ok" THEN 1 ELSE 0) + (IF read_ok THEN 0 ELSE 1)
    + (IF busy # 0 THEN 1 ELSE 0)

\* A loop body that persists the message before it dispatches the commands.
ProcessMessage_persisting_first(events, write, read_ok, busy) ==
    LET len == VLen(combined)
        message_start == saturating_sub(last_end, len)
        suppressed == suppress_dtmf(combined, events)
        replay == handle_dtmf_commands(events, message_start,
                                       write_recording(recordings, suppressed),
                                       callsign_samples, read_ok)
        result == transmit_message(suppressed, last_end, callsign_samples, last_id)
    IN /\ recordings' = (CASE write = "ok" -> write_recording(recordings, suppressed)
                           [] write = "partial" -> Append(recordings, [len |-> 0])
                           [] OTHER -> recordings)
       /\ last_message_end' = Some(last_end)
       /\ output_ch' = send(send_all(output_ch, replay), result.out)
       /\ IF result.sent_callsign
          THEN /\ last_id' = Some(result.transmission_end_sample)
               /\ state' = "Idle"
          ELSE /\ last_id' = last_id
               /\ state' = "MidConversation"
       /\ iter' = [kind |-> "message",
                   samples |-> combined,
                   end_sample |-> last_end,
                   events |-> events,
                   sequences |-> split_dtmf_sequences(events, message_start),
                   suppressed |-> suppressed,
                   recorded |-> suppressed,
                   replay |-> replay,
                   tx |-> <<result.out>>,
                   sent_callsign |-> result.sent_callsign,
                   last_id_before |-> last_id,
                   state_before |-> state,
                   write |-> write,
                   read_ok |-> read_ok,
                   dir_before |-> recordings,
                   send_ok |-> SendOk,
                   out_before |-> output_ch]
       /\ faults' = faults + Upsets(write, read_ok, busy)
       /\ clock' = clock + busy
       /\ pc' = "recv_first"
       /\ UNCHANGED <<capture_vars, read_vars, out_connected>>

\* Lines 98-127 of main, for the message read_message returned.  events: what
\* dtmf.push returned for the message; write: the outcome of
\* write_recording; read_ok: that of read_recording; busy: the time taken.
ProcessMessage(events, write, read_ok, busy) ==
    LET len == VLen(combined)
        message_start == saturating_sub(last_end, len)
        replay == handle_dtmf_commands(events, message_start, recordings,
                                       callsign_samples, read_ok)
        suppressed == suppress_dtmf(combined, events)
        result == transmit_message(suppressed, last_end, callsign_samples, last_id)
    IN /\ recordings' = (CASE write = "ok" -> write_recording(recordings, suppressed)
                           [] write = "partial" -> Append(recordings, [len |-> 0])
                           [] OTHER -> recordings)
       /\ last_message_end' = Some(last_end)
       /\ output_ch' = send(send_all(output_ch, replay), result.out)
       /\ IF result.sent_callsign
          THEN /\ last_id' = Some(result.transmission_end_sample)
               /\ state' = "Idle"
          ELSE /\ last_id' = last_id
               /\ state' = "MidConversation"
       /\ iter' = [kind |-> "message",
                   samples |-> combined,
                   end_sample |-> last_end,
                   events |-> events,
                   sequences |-> split_dtmf_sequences(events, message_start),
                   suppressed |-> suppressed,
                   recorded |-> suppressed,
                   replay |-> replay,
                   tx |-> <<result.out>>,
                   sent_callsign |-> result.sent_callsign,
                   last_id_before |-> last_id,
                   state_before |-> state,
                   write |-> write,
                   read_ok |-> read_ok,
                   dir_before |-> recordings,
                   send_ok |-> SendOk,
                   out_before |-> output_ch]
       /\ faults' = faults + Upsets(write, read_ok, busy)
       /\ clock' = clock + busy
       /\ pc' = "recv_first"
       /\ UNCHANGED <<capture_vars, read_vars, out_connected>>

\* What dtmf.reset(); dtmf.push(&message.samples) can return for the message
\* read: one outcome per pattern of detector verdicts that fits its frames.
Heard ==
    {push_events(VLen(combined), dets) :
        dets \in {p \in DetectionPatterns : Len(p) <= VLen(combined) \div frame_len}}

Process ==
    /\ pc = "process"
    /\ \E events \in Heard, write \in WriteOutcomes,
          read_ok \in BOOLEAN, busy \in ProcessingTimes :
          /\ read_ok \/ ReplayAttempted(events,
                                        saturating_sub(last_end, VLen(combined)),
                                        recordings)
          /\ faults + Upsets(write, read_ok, busy) <= MaxFaults
          /\ ProcessMessage(events, write, read_ok, busy)

\* ------------------------------------------------------------ specification
\* The debouncer of the control loop is reset before each message and given
\* the message in one push (push_events): the variables of the debouncer driven
\* call by call stay as built.
DtmfInit ==
    /\ dtmf = [db |-> build, events |-> <<>>, seen |-> <<>>, arith |-> "ok"]
    /\ twin = [db |-> build, events |-> <<>>, seen |-> <<>>, arith |-> "ok"]
    /\ pushed = 0
    /\ overflow_checks \in BOOLEAN
    /\ resets = 0
    /\ before_reset = FALSE

DtmfIdle ==
    /\ dtmf = [db |-> build, events |-> <<>>, seen |-> <<>>, arith |-> "ok"]
    /\ twin = dtmf
    /\ pushed = 0
    /\ overflow_checks = FALSE
    /\ resets = 0
    /\ before_reset = FALSE

\* The control loop plays a callsign encoded before it starts (main.rs:56-62):
\* the variables of the encoder applied to a text stay as they begin.
CwIdle ==
    /\ cw_text = <<>>
    /\ cw_result = None

\* The callsign is modulated once, before the loop starts (callsign.rs:3-18).
ModIdle ==
    /\ cw_units = [all |-> <<>>, left |-> <<>>]
    /\ cw_osc = 0
    /\ cw_call = [calls |-> 0, out |-> <<>>, written |-> 0, took |-> <<>>]
    /\ cw_emitted = <<>>

\* The output stream as start_default_output builds it (device.rs:137-144),
\* nothing sent to it.
PlayIdle ==
    /\ play_ch = <<>>
    /\ pending = <<>>
    /\ ring = <<>>
    /\ left_out = <<>>
    /\ play_sent = <<>>
    /\ callbacks = 0

\* The control loop suppresses the tones of each message inside its loop body
\* (suppress_dtmf in ProcessMessage): the variables of suppress_dtmf applied to
\* a message apart from the loop stay as they begin.
SupIdle ==
    /\ sup_samples = <<>>
    /\ sup_events = <<>>
    /\ sup_out = None

\* The control loop reaches its detector through the debouncer only (push):
\* the variables of the detector driven call by call stay as they begin.
DetIdle ==
    /\ goertzel = detector_new(frame_len)
    /\ offered = [now |-> 0, at_reset |-> 0, calls |-> 0]
    /\ det_last = [op |-> "new", before |-> goertzel, result |-> None, prev |-> None]

\* main.rs:73-76 and the input channel as created (main.rs:56).
LiveIdle ==
    live = [pc |-> "recv_first", state |-> "Idle", has_id |-> FALSE,
            has_end |-> FALSE, left |-> 0, ch |-> 0, out |-> "none"]

\* The debouncer as built (main.rs:72), no message handled.
KeyedIdle ==
    keyed = [n |-> 0, len |-> 0, dets |-> <<>>, events |-> <<>>, db |-> build,
             sequences |-> <<>>, ranges |-> <<>>, left_over |-> None]

Next ==
    \/ CaptureBurst /\ UNCHANGED unit_vars
    \/ CaptureMixed /\ UNCHANGED unit_vars
    \/ CaptureDisconnect /\ UNCHANGED unit_vars
    \/ OutputDisconnect /\ UNCHANGED unit_vars
    \/ RecvFirstOk /\ UNCHANGED unit_vars
    \/ RecvFirstTimeout /\ UNCHANGED unit_vars
    \/ RecvFirstDisconnected /\ UNCHANGED unit_vars
    \/ RecvNextOk /\ UNCHANGED unit_vars
    \/ RecvNextEnd /\ UNCHANGED unit_vars
    \/ Process /\ UNCHANGED unit_vars

\* The control loop as constructed, the units apart from it at rest.
LoopInit == Init /\ DtmfIdle /\ CwIdle /\ ModIdle /\ PlayIdle /\ SupIdle /\ DetIdle /\ LiveIdle /\ KeyedIdle

Spec == LoopInit /\ [][Next]_vars

\* ------------------------------------------ the debouncer, call after call
\* Slice lengths of one push: empty, half a frame (two of them make a frame, the
\* first half carried across the calls), two frames.
SliceLens == {0, frame_len \div 2, 2 * frame_len}
\* Verdicts of detector.finish() on one frame.
Verdicts == {None, Some("A"), Some("4")}
\* Frames of one stream, and resets of one run.
MaxStreamFrames == 7
MaxResets == 1

\* dtmf.push(slice).  finish() is a function of the detector's accumulators: two
\* detectors that absorbed the same samples give the same verdicts.
DtmfPush ==
    \E len \in SliceLens :
        /\ dtmf.arith # "panicked"
        /\ pushed + len <= MaxStreamFrames * frame_len
        /\ \E dets \in [1..FramesCompleted(dtmf.db, len) -> Verdicts] :
           \E tdets \in [1..FramesCompleted(twin.db, len) -> Verdicts] :
               /\ twin.db.detector = dtmf.db.detector => tdets = dets
               /\ dtmf' = push_slice(dtmf, len, dets, pushed, overflow_checks)
               /\ twin' = push_slice(twin, len, tdets, pushed, overflow_checks)
        /\ pushed' = pushed + len
        /\ UNCHANGED <<overflow_checks, resets, before_reset, beside_dtmf>>

\* dtmf.reset(), and a debouncer built anew beside it.
DtmfReset ==
    /\ dtmf.arith # "panicked"
    /\ resets < MaxResets
    /\ before_reset' = (dtmf.db.samples_in_frame > 0 /\ IsSome(dtmf.db.current))
    /\ dtmf' = [db |-> reset(dtmf.db), events |-> <<>>, seen |-> <<>>, arith |-> "ok"]
    /\ twin' = [db |-> build, events |-> <<>>, seen |-> <<>>, arith |-> "ok"]
    /\ pushed' = 0
    /\ resets' = resets + 1
    /\ UNCHANGED <<overflow_checks, beside_dtmf>>

DtmfNext == DtmfPush \/ DtmfReset

DtmfStart == Init /\ DtmfInit /\ CwIdle /\ ModIdle /\ PlayIdle /\ SupIdle /\ DetIdle /\ LiveIdle /\ KeyedIdle

DtmfSpec == DtmfStart /\ [][DtmfNext]_<<vars, unit_vars>>

\* ------------------------------------------ the debouncer, one press, any key
\* One press pushed frame by frame: the verdict of a frame is any of the 16
\* keys, up to MaxHistory detecting frames, until the press is released.
MaxHistory == 3

KeyDetected ==
    \E i \in 1..Len(Keys) :
        /\ dtmf.seen = <<>> \/ IsSome(dtmf.db.current)
        /\ Len(dtmf.db.current_history) < MaxHistory
        /\ dtmf' = push_slice(dtmf, frame_len, <<Some(Keys[i])>>, pushed,
                              overflow_checks)
        /\ twin' = push_slice(twin, frame_len, <<Some(Keys[i])>>, pushed,
                              overflow_checks)
        /\ pushed' = pushed + frame_len
        /\ UNCHANGED <<overflow_checks, resets, before_reset, beside_dtmf>>

KeySilent ==
    /\ IsSome(dtmf.db.current)
    /\ dtmf' = push_slice(dtmf, frame_len, <<None>>, pushed, overflow_checks)
    /\ twin' = push_slice(twin, frame_len, <<None>>, pushed, overflow_checks)
    /\ pushed' = pushed + frame_len
    /\ UNCHANGED <<overflow_checks, resets, before_reset, beside_dtmf>>

KeyNext == KeyDetected \/ KeySilent

KeySpec == DtmfStart /\ [][KeyNext]_<<vars, unit_vars>>

\* ------------------------------------------------- the CW encoder on a text
\* The characters of the texts: letters in both cases, the prosign brackets,
\* white space of one and of two bytes, a character not in the table.
Alphabet == {"A", "R", "b", "<", ">", " ", "NBSP", "{"}
MaxText == 5
\* Longer texts: a prosign between letters, a run of white space between
\* letters, white space inside a prosign.
Examples ==
    {<<"A", "<", "A", "R", ">", "B">>,
     <<"A", " ", " ", "NBSP", " ", "b">>,
     <<"<", "A", " ", "NBSP", "R", ">", " ", "b">>}

RECURSIVE TextsOf(_)
TextsOf(n) ==
    IF n = 0 THEN {<<>>}
    ELSE TextsOf(n - 1)
         \cup {Append(t, ch) : t \in {u \in TextsOf(n - 1) : Len(u) = n - 1},
                               ch \in Alphabet}

Texts == TextsOf(MaxText) \cup Examples

CwInit ==
    /\ cw_text \in Texts
    /\ cw_result = None

\* encode_units(&text)
Encode ==
    /\ cw_result = None
    /\ cw_result' = Some(encode_units(cw_text))
    /\ UNCHANGED <<cw_text, beside_cw>>

CwNext == Encode

CwStart == Init /\ DtmfIdle /\ CwInit /\ ModIdle /\ PlayIdle /\ SupIdle /\ DetIdle /\ LiveIdle /\ KeyedIdle

CwSpec == CwStart /\ [][CwNext]_<<vars, unit_vars>>

\* --------------------------------------------- the CW modulator, call by call
\* Units of one iterator, and calls of modulate on it.
MaxUnits == 4
MaxCalls == 3
RECURSIVE UnitSeqs(_)
UnitSeqs(n) ==
    IF n = 0 THEN {<<>>}
    ELSE UnitSeqs(n - 1)
         \cup {Append(u, g) : u \in {v \in UnitSeqs(n - 1) : Len(v) = n - 1},
                              g \in BOOLEAN}

\* Lengths of the buffers: empty, one sample short of a unit, one unit, two
\* units and a sample, and units.len() * unit_samples as pre_modulate_callsign
\* sizes it.
BufLens(units) ==
    {0, unit_samples - 1, unit_samples, 2 * unit_samples + 1,
     Len(units) * unit_samples}

ModInit ==
    /\ cw_units \in {[all |-> u, left |-> u] : u \in UnitSeqs(MaxUnits)}
    /\ cw_osc = 0
    /\ cw_call = [calls |-> 0, out |-> <<>>, written |-> 0, took |-> <<>>]
    /\ cw_emitted = <<>>

\* modulator.modulate(&mut iter, &mut out) on a buffer of len samples, whose
\* content before the call is the run of kind "old".
Modulate ==
    \E len \in BufLens(cw_units.all) :
        /\ cw_call.calls < MaxCalls
        /\ LET buf == IF len = 0 THEN <<>>
                      ELSE <<Run("old", 0, len, cw_call.calls + 1)>>
               m == modulate(cw_units.left, buf, cw_osc)
           IN /\ cw_units' = [cw_units EXCEPT !.left = m.units]
              /\ cw_osc' = m.osc
              /\ cw_call' = [calls |-> cw_call.calls + 1, out |-> m.out,
                             written |-> m.written,
                             took |-> SubSeq(cw_units.left, 1,
                                             Len(cw_units.left) - Len(m.units))]
              /\ cw_emitted' = Extend(cw_emitted, VTake(m.out, m.written))
        /\ UNCHANGED beside_mod

ModNext == Modulate

ModStart == Init /\ DtmfIdle /\ CwIdle /\ ModInit /\ PlayIdle /\ SupIdle /\ DetIdle /\ LiveIdle /\ KeyedIdle

ModSpec == ModStart /\ [][ModNext]_<<vars, unit_vars>>

\* ------------------------------------------- the playback side, step by step
MaxBuffers == 3
MaxCallbacks == 6
\* Buffers of one and three samples, and one longer than the ring.
BufferLens == {1, 3, OUTPUT_RING_CAP + 3}
\* Frames of one callback of the device.
CallbackFrames == {2, OUTPUT_RING_CAP \div 2, OUTPUT_RING_CAP}

\* The samples of buffer id that were written to the left channel.
RECURSIVE Played(_, _)
Played(out, id) ==
    IF out = <<>> THEN 0
    ELSE (IF out[1].k = "buf" /\ out[1].id = id THEN out[1].n ELSE 0)
         + Played(Tail(out), id)

\* output_tx.send(buffer) of the control thread.
Submit ==
    \E len \in BufferLens :
        /\ Len(play_sent) < MaxBuffers
        /\ play_ch' = Append(play_ch, <<Run("buf", 0, len, Len(play_sent) + 1)>>)
        /\ play_sent' = Append(play_sent,
               [len |-> len,
                in_time |-> /\ play_sent # <<>>
                            /\ Played(left_out, Len(play_sent))
                                   < play_sent[Len(play_sent)].len])
        /\ UNCHANGED <<pending, ring, left_out, callbacks>>
        /\ UNCHANGED beside_play

\* One call of the output callback by the device.
OutputCallback ==
    \E frames \in CallbackFrames :
        /\ callbacks < MaxCallbacks
        /\ LET p == output_callback([ch |-> play_ch, pending |-> pending,
                                     ring |-> ring, left |-> left_out], frames)
           IN /\ play_ch' = p.ch
              /\ pending' = p.pending
              /\ ring' = p.ring
              /\ left_out' = p.left
        /\ callbacks' = callbacks + 1
        /\ UNCHANGED play_sent
        /\ UNCHANGED beside_play

PlayNext == Submit \/ OutputCallback

PlayStart == Init /\ DtmfIdle /\ CwIdle /\ ModIdle /\ PlayIdle /\ SupIdle /\ DetIdle /\ LiveIdle /\ KeyedIdle

PlaySpec == PlayStart /\ [][PlayNext]_<<vars, unit_vars>>

\* ------------------------------------------- suppress_dtmf, message by message
MaxEvents == 2
MaxPosition == 6
\* Lengths of the messages: empty, and shorter than the positions go.
MessageLens == {0, 1, 4}

\* Lists of at most n key events in time order, each from its start to its end
\* (start <= end), a later event beginning after the end of the one before, at
\* positions from `from` on; positions may lie beyond the message.
RECURSIVE EventLists(_, _)
EventLists(n, from) ==
    {<<>>}
    \cup (IF n = 0 THEN {}
          ELSE UNION {{<<(<<"#", start, end>>)>> \o rest :
                          rest \in EventLists(n - 1, end + 1)} :
                      start \in from..MaxPosition, end \in from..MaxPosition})

SupInit ==
    /\ sup_samples \in {IF len = 0 THEN <<>> ELSE <<Run("in", 0, len, 0)>> :
                           len \in MessageLens}
    /\ sup_events \in {es \in EventLists(MaxEvents, 0) :
                          \A i \in 1..Len(es) : es[i][2] <= es[i][3]}
    /\ sup_out = None

\* suppress_dtmf(&mut samples, &events)
Suppress ==
    /\ sup_out = None
    /\ sup_out' = Some(suppress_dtmf(sup_samples, sup_events))
    /\ UNCHANGED <<sup_samples, sup_events>>
    /\ UNCHANGED beside_sup

SupNext == Suppress

SupStart == Init /\ DtmfIdle /\ CwIdle /\ ModIdle /\ PlayIdle /\ SupInit /\ DetIdle /\ LiveIdle /\ KeyedIdle

SupSpec == SupStart /\ [][SupNext]_<<vars, unit_vars>>

\* ------------------------------------------------ the detector, call by call
MaxDetCalls == 5
\* Window lengths asked of DtmfDetector::new, and lengths of the slices fed.
Windows == {0, 1, 3}
FeedLens == {0, 1, 2, 4}

DetInit ==
    /\ goertzel \in {detector_new(n) : n \in Windows}
    /\ offered = [now |-> 0, at_reset |-> 0, calls |-> 0]
    /\ det_last = [op |-> "new", before |-> goertzel, result |-> None, prev |-> None]

\* detector.feed(samples)
DetFeed ==
    \E len \in FeedLens :
        /\ offered.calls < MaxDetCalls
        /\ goertzel' = feed(goertzel, offered.now, len)
        /\ offered' = [offered EXCEPT !.now = @ + len, !.calls = @ + 1]
        /\ det_last' = [op |-> "feed", before |-> goertzel, result |-> None,
                        prev |-> None]

\* detector.finish(): it takes &self.
DetFinish ==
    /\ offered.calls < MaxDetCalls
    /\ det_last' = [op |-> "finish", before |-> goertzel,
                    result |-> Some(finish(goertzel)),
                    prev |-> IF det_last.op = "finish" THEN det_last.result ELSE None]
    /\ offered' = [offered EXCEPT !.calls = @ + 1]
    /\ UNCHANGED goertzel

\* detector.reset()
DetReset ==
    /\ offered.calls < MaxDetCalls
    /\ goertzel' = detector_reset(goertzel)
    /\ offered' = [offered EXCEPT !.at_reset = offered.now, !.calls = @ + 1]
    /\ det_last' = [op |-> "reset", before |-> goertzel, result |-> None,
                    prev |-> None]

DetNext ==
    \/ DetFeed /\ UNCHANGED beside_det
    \/ DetFinish /\ UNCHANGED beside_det
    \/ DetReset /\ UNCHANGED beside_det

DetStart == Init /\ DtmfIdle /\ CwIdle /\ ModIdle /\ PlayIdle /\ SupIdle /\ DetInit /\ LiveIdle /\ KeyedIdle

DetSpec == DetStart /\ [][DetNext]_<<vars, unit_vars>>

\* ------------------------------------------- the control loop, without clocks
\* Chunks the input channel may hold at once, and the distance of a fresh ID
\* deadline in steps of the sample clock.
MaxQueued == 3
MaxUntilDue == 6
\* By how much a chunk received moves end_sample towards the deadline: every
\* chunk ends later than the one before it.
Advances == {1, MaxUntilDue}

\* left after a chunk that moved end_sample by d.
Nearer(d) == Max(0, live.left - d)

\* The capture callback sends a chunk (device.rs:83-86).
ChunkArrives ==
    /\ live.ch < MaxQueued
    /\ live' = [live EXCEPT !.ch = @ + 1]
    /\ UNCHANGED beside_live

\* read_message: the first receive returns a chunk (main.rs:135-147).
LiveRecvFirstOk ==
    /\ live.pc = "recv_first"
    /\ live.ch > 0
    /\ \E d \in Advances :
           live' = [live EXCEPT !.ch = @ - 1, !.left = Nearer(d), !.pc = "recv_next"]
    /\ UNCHANGED beside_live

\* read_message returns None after ID_IDLE_SECS without a chunk; the loop sends
\* the callsign if a message went before (main.rs:79-96).
LiveRecvFirstTimeout ==
    /\ live.pc = "recv_first"
    /\ live.state = "MidConversation"
    /\ live.ch = 0
    /\ live' = IF live.has_end
               THEN [live EXCEPT !.out = "callsign", !.has_id = TRUE,
                                 !.left = MaxUntilDue, !.state = "Idle"]
               ELSE [live EXCEPT !.state = "Idle"]
    /\ UNCHANGED beside_live

\* read_message: a further chunk arrives within CONTINUITY_GAP_SECS and is
\* absorbed (main.rs:152-158).
LiveRecvNextOk ==
    /\ live.pc = "recv_next"
    /\ live.ch > 0
    /\ \E d \in Advances :
           live' = [live EXCEPT !.ch = @ - 1, !.left = Nearer(d)]
    /\ UNCHANGED beside_live

\* read_message: no chunk within CONTINUITY_GAP_SECS, the message is returned
\* (main.rs:159, 164-167).
LiveRecvNextTimeout ==
    /\ live.pc = "recv_next"
    /\ live.ch = 0
    /\ live' = [live EXCEPT !.pc = "process"]
    /\ UNCHANGED beside_live

\* The loop body: the message is transmitted, with the callsign when the ID is
\* due (main.rs:98-127, 186-190).
LiveProcess ==
    /\ live.pc = "process"
    /\ live' = IF ~live.has_id \/ live.left = 0
               THEN [live EXCEPT !.out = "callsign", !.has_id = TRUE, !.has_end = TRUE,
                                 !.left = MaxUntilDue, !.state = "Idle",
                                 !.pc = "recv_first"]
               ELSE [live EXCEPT !.out = "plain", !.has_end = TRUE,
                                 !.state = "MidConversation", !.pc = "recv_first"]
    /\ UNCHANGED beside_live

LiveNext ==
    \/ ChunkArrives
    \/ LiveRecvFirstOk
    \/ LiveRecvFirstTimeout
    \/ LiveRecvNextOk
    \/ LiveRecvNextTimeout
    \/ LiveProcess

LiveStart ==
    Init /\ DtmfIdle /\ CwIdle /\ ModIdle /\ PlayIdle /\ SupIdle /\ DetIdle /\ LiveIdle
    /\ KeyedIdle

\* The control thread runs: a receive that can return returns, a timeout that
\* stays armed with nothing arriving expires, the loop body completes.  Nothing
\* is asked of the capture side.
LiveSpec ==
    /\ LiveStart
    /\ [][LiveNext]_<<vars, unit_vars>>
    /\ WF_<<vars, unit_vars>>(LiveRecvFirstOk)
    /\ WF_<<vars, unit_vars>>(LiveRecvFirstTimeout)
    /\ WF_<<vars, unit_vars>>(LiveRecvNextOk)
    /\ WF_<<vars, unit_vars>>(LiveRecvNextTimeout)
    /\ WF_<<vars, unit_vars>>(LiveProcess)

\* ------------------------------------------ the keys of successive messages
\* Messages handled, whole frames of a message, the samples after its last
\* whole frame, and the detector's verdicts on a frame.
MaxMessages == 2
MaxMsgFrames == 7
MsgTails == {0, frame_len \div 2}
MsgVerdicts == {None, Hash}
\* The verdicts on the frames of a message: every pattern of up to MaxMsgFrames
\* frames, and the longer patterns of the control loop.
MsgPatterns ==
    UNION {[1..k -> MsgVerdicts] : k \in 0..MaxMsgFrames} \cup DetectionPatterns

\* main.rs:98-110 for one message of whole frames and `tail` samples: reset, push,
\* the digit strings of handle_dtmf_commands, the ranges of suppress_dtmf.  The
\* messages are taken ID_IDLE_SECS apart.
KeyMessage ==
    /\ keyed.n < MaxMessages
    /\ \E dets \in MsgPatterns : \E tail \in MsgTails :
          LET len == Len(dets) * frame_len + tail
              message_start == keyed.n * samples_from_secs(ID_IDLE_SECS)
              d == push([db |-> reset(keyed.db), events |-> <<>>], len, dets)
          IN keyed' = [n |-> keyed.n + 1,
                       len |-> len,
                       dets |-> dets,
                       events |-> d.events,
                       db |-> d.db,
                       sequences |-> split_dtmf_sequences(d.events, message_start),
                       ranges |-> collect_event_ranges(len, d.events),
                       left_over |-> keyed.db.current]
    /\ UNCHANGED beside_keyed

KeyedStart ==
    Init /\ DtmfIdle /\ CwIdle /\ ModIdle /\ PlayIdle /\ SupIdle /\ DetIdle /\ LiveIdle
    /\ KeyedIdle

KeyedSpec == KeyedStart /\ [][KeyMessage]_<<vars, unit_vars>>

\* ------------------------------------------------------------------ claims
\* The buffer holds samples of the pre-rendered callsign.
HasCallsign(buf) == \E i \in 1..Len(buf) : buf[i].k = "cs"

\* The n samples of v from index a on.
Slice(v, a, n) == VTake(VDrop(v, a), n)

\* The end of the tentative ID-less transmission of the message of the last
\* pass: end_sample + lead-in + message + hang.
ProvisionalEnd == iter.end_sample + 9600 + VLen(iter.suppressed) + 48000

\* The sample at which the next ID is due, 9 minutes after the one on record
\* before the last pass.
IdDue == Unwrap(iter.last_id_before) + 25920000

C2_EndSampleShortOfDeadline ==
    (iter.kind = "message" /\ IsSome(iter.last_id_before)) =>
        /\ (iter.end_sample = IdDue - 1 /\ VLen(iter.samples) <= ENERGY_BLOCK)
              => (~HasCallsign(iter.tx[1]) /\ state = "MidConversation")
        /\ ProvisionalEnd >= IdDue => HasCallsign(iter.tx[1])

\* C2, amended: it is the provisional end (end_sample + lead-in + message +
\* hang) that is compared with the deadline.  One short of it: no ID, and
\* MidConversation; at or past it: ID, and Idle.  A message whose end_sample
\* is one short of the deadline therefore carries the ID whatever its length.
C2_ProvisionalEndDecides ==
    (iter.kind = "message" /\ IsSome(iter.last_id_before)) =>
        /\ ProvisionalEnd = IdDue - 1
              => (~HasCallsign(iter.tx[1]) /\ state = "MidConversation")
        /\ ProvisionalEnd >= IdDue
              => (HasCallsign(iter.tx[1]) /\ state = "Idle")
        /\ iter.end_sample = IdDue - 1 => HasCallsign(iter.tx[1])

\* A message whose tentative transmission ends one sample short of the
\* deadline was transmitted without the ID.
C2_Witness ==
    /\ iter.kind = "message"
    /\ IsSome(iter.last_id_before)
    /\ ProvisionalEnd = IdDue - 1
    /\ ~HasCallsign(iter.tx[1])
    /\ state = "MidConversation"

\* out is: 9600 zeros, the message m, then - with the ID - 48000 zeros and the
\* callsign, then 48000 zeros; and its length is transmit_len.
Layout(out, m, with_id) ==
    LET M == VLen(m)
        C == VLen(callsign_samples)
    IN /\ Slice(out, 0, 9600) = Zeros(9600)
       /\ Slice(out, 9600, M) = m
       /\ IF with_id
          THEN /\ Slice(out, 9600 + M, 48000) = Zeros(48000)
               /\ Slice(out, 57600 + M, C) = callsign_samples
               /\ Slice(out, 57600 + M + C, 48000) = Zeros(48000)
               /\ VLen(out) = 105600 + M + C
          ELSE /\ Slice(out, 9600 + M, 48000) = Zeros(48000)
               /\ VLen(out) = 57600 + M
       /\ VLen(out) = transmit_len(M, C, with_id)

\* C3: every buffer handed to the output channel is lead-in zeros, the message
\* unchanged, the 1 s gap and the callsign only when the ID is included, and
\* the hang zeros, of length transmit_len; the ID-only transmission is that
\* layout with an empty message.
C3_BufferLayout ==
    /\ iter.kind = "message" =>
          /\ Layout(iter.tx[1], iter.suppressed, iter.sent_callsign)
          /\ \A i \in 1..Len(iter.replay) :
                Layout(iter.replay[i],
                       Slice(iter.replay[i], 9600, VLen(iter.replay[i]) - 57600),
                       FALSE)
    /\ iter.kind = "idle_id" =>
          \A i \in 1..Len(iter.tx) : Layout(iter.tx[i], <<>>, TRUE)

\* An ID-only transmission was built after a message that went out without
\* the ID.
C3_Witness ==
    /\ iter.kind = "idle_id"
    /\ iter.tx # <<>>
    /\ iter.send_ok
    /\ output_ch[Len(output_ch)] = iter.tx[1]

\* C4: after a message is transmitted, last_message_end is its end_sample;
\* when the buffer held the ID the loop is Idle and last_id is end_sample + the
\* length of the buffer, otherwise the loop is in MidConversation and last_id
\* is what it was.
C4_AfterTransmission ==
    iter.kind = "message" =>
        /\ last_message_end = Some(iter.end_sample)
        /\ IF HasCallsign(iter.tx[1])
           THEN /\ state = "Idle"
                /\ last_id = Some(iter.end_sample + VLen(iter.tx[1]))
           ELSE /\ state = "MidConversation"
                /\ last_id = iter.last_id_before

\* A message went out with the ID while an earlier ID was on record, and
\* last_id moved.
C4_Witness ==
    /\ iter.kind = "message"
    /\ IsSome(iter.last_id_before)
    /\ HasCallsign(iter.tx[1])
    /\ state = "Idle"
    /\ last_id # iter.last_id_before

\* C5: the idle timeout passes only in MidConversation, where a message has
\* always been transmitted before; it hands exactly one ID-only buffer to the
\* output channel, sets last_id to last_message_end + 30 s + the length of
\* that buffer, and leaves the loop Idle.  An Idle loop waiting for the first
\* chunk sends nothing and stays Idle, and leaves the wait only with a chunk
\* (or with the error of a disconnected channel).
C5_IdleTimeout ==
    /\ [](state = "MidConversation" => IsSome(last_message_end))
    /\ [](iter.kind = "idle_id" =>
            /\ iter.state_before = "MidConversation"
            /\ Len(iter.tx) = 1
            /\ Layout(iter.tx[1], <<>>, TRUE)
            /\ iter.send_ok => output_ch = Append(iter.out_before, iter.tx[1])
            /\ last_id = Some(Unwrap(last_message_end) + 1440000 + VLen(iter.tx[1]))
            /\ state = "Idle")
    /\ [][(state = "Idle" /\ pc = "recv_first") =>
            /\ output_ch' = output_ch
            /\ state' = "Idle"
            /\ iter' = iter
            /\ pc' \in {"recv_first", "recv_next", "failed"}
            /\ pc' = "recv_next" => input_ch # <<>>]_vars

\* The idle timeout has passed: the ID went out and the loop waits, Idle, on
\* an empty channel.
C5_Witness ==
    /\ iter.kind = "idle_id"
    /\ iter.state_before = "MidConversation"
    /\ output_ch = Append(iter.out_before, iter.tx[1])
    /\ state = "Idle"
    /\ pc = "recv_first"
    /\ input_ch = <<>>

\* Every captured sample of v lies at its stream position: the sample at index
\* off + i of the message is the sample origin + off + i of the stream.
RECURSIVE Aligned(_, _, _)
Aligned(v, off, origin) ==
    \/ v = <<>>
    \/ /\ v[1].k = "in" => v[1].a = origin + off
       /\ Aligned(Tail(v), off + v[1].n, origin)

\* C6 as stated: every merge inserts exactly G zeros, G = (next.end_sample -
\* len(next.samples)) - end_sample of the chunk before; the assembled message
\* keeps every captured sample at its distance from the first, and its length
\* is end_sample minus the start position of the first chunk.
C6_GapCoversSeparation ==
    pc = "process" =>
        /\ \A i \in 1..Len(asm.merges) : asm.merges[i].zeros = asm.merges[i].sep
        /\ Aligned(combined, 0, combined[1].a)
        /\ VLen(combined) = last_end - asm.first_start

\* C7 as stated: two consecutive chunks are merged only when the end position
\* of the first and the start position of the second are at most the
\* continuity gap (48000 samples) apart, and delivered as separate messages
\* only when they are at least that far apart.
C7_ContinuityBySamples ==
    /\ \A i \in 1..Len(asm.merges) : asm.merges[i].sep <= 48000
    /\ IsSome(asm.split) => Unwrap(asm.split).sep >= 48000

\* Some sequence of the message of the last pass contains "##".
SawHashHash ==
    \E i \in 1..Len(iter.sequences) :
        \E j \in 1..(Len(iter.sequences[i]) - 1) :
            iter.sequences[i][j] = "#" /\ iter.sequences[i][j + 1] = "#"

\* What decoding the latest file of the directory yields: whole Opus frames of
\* 960 samples.
DecodedLatest(dir) ==
    IF dir[Len(dir)].len = 0 THEN <<>>
    ELSE <<Run("rec", 0, ((dir[Len(dir)].len + 959) \div 960) * 960, Len(dir))>>

\* C8: a message with "##" in its digit sequences, read with a recording in
\* the directory, has exactly one replay buffer handed to the output channel
\* before its own transmission: lead-in, the decoded samples of the latest
\* recording, hang, no callsign.  With an empty directory, or without "##",
\* nothing is replayed, and the message is transmitted all the same.
C8_Replay ==
    iter.kind = "message" =>
        /\ (SawHashHash /\ iter.dir_before # <<>> /\ iter.read_ok) =>
              /\ Len(iter.replay) = 1
              /\ Layout(iter.replay[1], DecodedLatest(iter.dir_before), FALSE)
              /\ ~HasCallsign(iter.replay[1])
        /\ (~SawHashHash \/ iter.dir_before = <<>>) => iter.replay = <<>>
        /\ Len(iter.tx) = 1
        /\ iter.send_ok => output_ch = iter.out_before \o iter.replay \o iter.tx

\* A message with "##" keyed twice, in two sequences, made the loop replay the
\* latest recording once.
C8_Witness ==
    /\ iter.kind = "message"
    /\ Len(iter.sequences) = 2
    /\ SawHashHash
    /\ Len(iter.replay) = 1
    /\ iter.send_ok
    /\ VLen(iter.replay[1]) > 57600

\* C9 as stated: a pass whose send found the output channel disconnected ends
\* the loop with an error, and so does a disconnect of the input channel: the
\* loop never waits for a further chunk after it.
C9_DisconnectIsFatal ==
    /\ (iter.kind \in {"message", "idle_id"} /\ iter.tx # <<>> /\ ~iter.send_ok)
          => pc = "failed"
    /\ asm.closed = "disconnected" => pc \in {"process", "recv_first", "failed"}

\* C10: a pass in which write_recording failed transmits the message with the
\* ID scheduled and the state updated as ever; a pass in which read_recording
\* failed replays nothing, records the message and transmits it; and in both
\* cases the loop goes on: it ends only when the input channel is disconnected.
C10_RecordingFailures ==
    (iter.kind = "message" /\ (iter.write # "ok" \/ ~iter.read_ok)) =>
        /\ Len(iter.tx) = 1
        /\ iter.send_ok => output_ch = iter.out_before \o iter.replay \o iter.tx
        /\ HasCallsign(iter.tx[1])
              <=> (iter.last_id_before = None \/ ProvisionalEnd >= IdDue)
        /\ last_message_end = Some(iter.end_sample)
        /\ IF HasCallsign(iter.tx[1])
           THEN state = "Idle" /\ last_id = Some(iter.end_sample + VLen(iter.tx[1]))
           ELSE state = "MidConversation" /\ last_id = iter.last_id_before
        /\ ~iter.read_ok => iter.replay = <<>>
        /\ (~iter.read_ok /\ iter.write = "ok")
              => recordings = Append(iter.dir_before, [len |-> VLen(iter.suppressed)])
        /\ iter.write = "err" => recordings = iter.dir_before
        /\ in_connected => pc # "failed"

\* A "##" message whose replay failed on read_recording was recorded and
\* transmitted, and the loop has received the next chunk.
C10_Witness ==
    /\ iter.kind = "message"
    /\ ~iter.read_ok
    /\ iter.replay = <<>>
    /\ iter.send_ok
    /\ recordings = Append(iter.dir_before, [len |-> VLen(iter.suppressed)])
    /\ pc = "recv_next"

\* C27: one pass of the loop extracts the keys, dispatches the commands,
\* suppresses the tones, persists and transmits, in that order: a replay plays
\* the latest recording that existed before this message was persisted, the
\* replay buffer is sent before the message's own buffer, and the message
\* recorded and the message transmitted are both the tone-suppressed one.
C27_StepOrder ==
    iter.kind = "message" =>
        /\ iter.sequences
               = split_dtmf_sequences(iter.events,
                                      saturating_sub(iter.end_sample, VLen(iter.samples)))
        /\ iter.replay # <<>> =>
               /\ iter.dir_before # <<>>
               /\ Layout(iter.replay[1], DecodedLatest(iter.dir_before), FALSE)
        /\ iter.send_ok => output_ch = iter.out_before \o iter.replay \o iter.tx
        /\ iter.suppressed = suppress_dtmf(iter.samples, iter.events)
        /\ iter.recorded = iter.suppressed
        /\ iter.write = "ok" =>
               recordings = write_recording(iter.dir_before, iter.recorded)
        /\ Layout(iter.tx[1], iter.suppressed, iter.sent_callsign)

\* A message with "##" in it and a recording before it: the recording was
\* replayed ahead of the message, and the message was recorded and sent with
\* its tones overwritten.
C27_Witness ==
    /\ iter.kind = "message"
    /\ SawHashHash
    /\ Len(iter.replay) = 1
    /\ iter.write = "ok"
    /\ iter.send_ok
    /\ iter.suppressed # iter.samples
    /\ Len(recordings) = Len(iter.dir_before) + 1

\* The keys of events[1..i] in strings, a new string begun at every event that
\* lies more than the command gap after the event before it: more than 96000
\* samples from the end of that event to the start of this one.
RECURSIVE GapStrings(_, _)
GapStrings(events, i) ==
    IF i = 0 THEN <<>>
    ELSE IF i = 1 THEN << <<events[1][1]>> >>
    ELSE LET before == GapStrings(events, i - 1)
         IN IF events[i][2] - events[i - 1][3] > samples_from_millis(DTMF_COMMAND_GAP_MS)
            THEN Append(before, <<events[i][1]>>)
            ELSE [before EXCEPT ![Len(before)] = Append(@, events[i][1])]

\* C28: the digit strings of a message are its key events in order, a new
\* string begun exactly at the events whose gap to the event before exceeds
\* 96000 samples; two # with a gap of at most 96000 samples make one string ##.
C28_SplitOnGaps ==
    iter.kind = "message" =>
        iter.sequences = GapStrings(iter.events, Len(iter.events))

\* The samples of all buffers of bufs.
RECURSIVE TotalLen(_)
TotalLen(bufs) == IF bufs = <<>> THEN 0 ELSE VLen(Head(bufs)) + TotalLen(Tail(bufs))

\* C31: a pass that sends no callsign while an ID is on record ends all it
\* sends - the message's buffer and a replay buffer - before the ID deadline:
\* end_sample plus the samples sent in the pass is below last_id + 9 minutes.
C31_EnqueuedBeforeDeadline ==
    (/\ iter.kind = "message"
     /\ IsSome(iter.last_id_before)
     /\ ~iter.sent_callsign)
        => iter.end_sample + TotalLen(iter.replay) + TotalLen(iter.tx) < IdDue

\* C33: last_id never decreases from one pass of the loop to the next: where
\* a pass started with an ID on record, the ID time it leaves behind (set by
\* an ID-carrying message, set by the idle timeout, or left alone) is not
\* earlier.
C33_LastIdNeverDecreases ==
    (/\ iter.kind \in {"message", "idle_id"}
     /\ IsSome(iter.last_id_before))
        => /\ IsSome(last_id)
           /\ Unwrap(last_id) >= Unwrap(iter.last_id_before)

\* A step of read_message that takes a chunk from the input channel puts all
\* its samples at the end of the message being assembled, after all that the
\* message held.
ChunkKept ==
    Len(input_ch') < Len(input_ch) =>
        LET held == IF pc = "recv_first" THEN <<>> ELSE combined
            n == VLen(Front.samples)
        IN /\ Slice(combined', 0, VLen(held)) = held
           /\ Slice(combined', VLen(combined') - n, n) = Front.samples

\* The pass of the loop body over the message read_message returned adds, after
\* the buffers already on the output channel (and a replay, if commanded), one
\* buffer, which holds the tone-suppressed samples of that message.
RelayedOnce ==
    (pc = "process" /\ pc' = "recv_first") =>
        /\ iter'.samples = combined
        /\ iter'.suppressed = suppress_dtmf(combined, iter'.events)
        /\ Len(iter'.tx) = 1
        /\ Slice(iter'.tx[1], samples_from_millis(TX_LEAD_TIME_MS),
                 VLen(iter'.suppressed)) = iter'.suppressed
        /\ output_ch' = output_ch \o iter'.replay \o iter'.tx

\* C34: every message read_message returns is retransmitted exactly once and
\* in arrival order: each pass over a message appends one transmit buffer with
\* the message's tone-suppressed samples to the output channel, behind the
\* buffers of the messages before it, and every chunk taken from the input
\* channel is, whole, part of the message assembled.
C34_RelayedOnceInOrder == [][ChunkKept /\ RelayedOnce]_vars

\* C32: whenever a message went out without the callsign (MidConversation), a
\* buffer with the callsign is sent later, whatever the arrival of chunks.
C32_EventuallyIdentified ==
    (live.state = "MidConversation") ~> (live.out = "callsign")

\* ------------------------------------------------- claims on the debouncer
\* The frames the debouncer has consumed since its last reset, read as presses.
\* det(i) is the detector's verdict on the i-th frame.
det(i) == dtmf.seen[i].detected

\* No key is tracked after frame i: the last min_gap_frames frames (all frames,
\* when fewer were consumed) detected nothing.
IdleAfter(i) == \A j \in Max(1, i - min_gap_frames + 1)..i : det(j) = None

\* Frame s detects a key while none is tracked.
StartsPress(s) == IsSome(det(s)) /\ (s = 1 \/ IdleAfter(s - 1))

\* A press: it starts at frame s and frame r is the frame that releases it.
IsPress(s, r) ==
    /\ StartsPress(s)
    /\ r > s
    /\ IdleAfter(r)
    /\ \A j \in s..(r - 1) : ~IdleAfter(j)

Presses ==
    {p \in (1..Len(dtmf.seen)) \X (1..Len(dtmf.seen)) : IsPress(p[1], p[2])}

\* The detecting frames of the frames s..r, and the keys they detected, in order.
Detecting(s, r) == {j \in s..r : IsSome(det(j))}
RECURSIVE KeysOf(_, _)
KeysOf(s, r) ==
    IF s > r THEN <<>>
    ELSE (IF IsSome(det(s)) THEN <<Unwrap(det(s))>> ELSE <<>>) \o KeysOf(s + 1, r)

LastDetecting(p) ==
    CHOOSE j \in Detecting(p[1], p[2]) : \A i \in Detecting(p[1], p[2]) : i <= j

\* The presses of at least min_press_frames detecting frames, and the place of
\* one of them among them.
LongPresses ==
    {p \in Presses : Cardinality(Detecting(p[1], p[2])) >= min_press_frames}
ShortPresses == Presses \ LongPresses
Rank(p) == 1 + Cardinality({q \in LongPresses : q[1] < p[1]})

\* The frame at which the key still tracked after the last frame was first seen.
TrackStart ==
    CHOOSE s \in 1..Len(dtmf.seen) :
        StartsPress(s) /\ \A j \in s..Len(dtmf.seen) : ~IdleAfter(j)

\* C11: a key detected in fewer than min_press_frames frames and then followed
\* by min_gap_frames frames without a detection emits no event (the events are
\* those of the presses of at least min_press_frames frames, one each), and the
\* tracking state is cleared: no key is tracked after the release, and the
\* history of a key tracked later holds only the frames of its own press.
C11_ShortBurstIsDropped ==
    /\ Len(dtmf.events) = Cardinality(LongPresses)
    /\ IF dtmf.seen = <<>> \/ IdleAfter(Len(dtmf.seen))
       THEN /\ dtmf.db.current = None
            /\ dtmf.db.current_history = <<>>
            /\ dtmf.db.gap_frames = 0
       ELSE /\ dtmf.db.current = det(TrackStart)
            /\ dtmf.db.current_history = KeysOf(TrackStart, Len(dtmf.seen))

\* A short burst was released without an event, and a key detected after it is
\* tracked on its own.
C11_Witness ==
    \E p \in ShortPresses :
        /\ dtmf.events = <<>>
        /\ Len(dtmf.seen) > p[2]
        /\ IsSome(dtmf.db.current)
        /\ Len(dtmf.db.current_history) = 1
        /\ dtmf.arith = "ok"

\* The keys of press p are one key throughout but for a single frame, neither
\* the first nor the last detecting one, that detected another key.
HasFlicker(p) ==
    LET h == KeysOf(p[1], p[2])
    IN \E m \in 2..(Len(h) - 1) :
           /\ h[m] # h[1]
           /\ \A i \in 1..Len(h) : i # m => h[i] = h[1]

\* The event of a press that runs from its first to its last detecting frame.
WholePress(p, key) ==
    <<key, dtmf.seen[p[1]].frame_start, dtmf.seen[LastDetecting(p)].frame_end>>

\* C12: a press of one key with a single frame in the middle detected as another
\* key is emitted as one event that carries the original key and runs from the
\* first to the last detecting frame of the press: the other key neither ends
\* the tracking nor starts an event of its own, and while a key is tracked the
\* tracked key stays the one first detected.
C12_FlickerKeepsKey ==
    /\ \A p \in LongPresses :
           HasFlicker(p) =>
               /\ Rank(p) <= Len(dtmf.events)
               /\ dtmf.events[Rank(p)] = WholePress(p, Unwrap(det(p[1])))
    /\ Len(dtmf.events) <= Cardinality(Presses)
    /\ IsSome(dtmf.db.current) => dtmf.db.current = det(TrackStart)

\* A press A, 4, A was released and its one event carries A.
C12_Witness ==
    \E p \in LongPresses :
        /\ HasFlicker(p)
        /\ Len(dtmf.events) = 1
        /\ dtmf.events[1][1] = Unwrap(det(p[1]))
        /\ dtmf.arith = "ok"

\* Press p is of one key and has frames without a detection between its
\* detecting frames (fewer than min_gap_frames in a row, or it had been released).
HasPause(p) ==
    /\ \A j \in Detecting(p[1], p[2]) : det(j) = det(p[1])
    /\ \E j \in p[1]..LastDetecting(p) : det(j) = None

\* The frames without a detection at the end of the frames consumed.
TrailingGap ==
    Len(dtmf.seen) - (CHOOSE j \in Detecting(1, Len(dtmf.seen)) :
                          \A i \in Detecting(1, Len(dtmf.seen)) : i <= j)

\* C13: a key that pauses for fewer than min_gap_frames frames and is detected
\* again is one press: it gives exactly one event (one event per press of at
\* least min_press_frames detecting frames), from the start of the first frame
\* of its first part to the end of the last detecting frame of its second part;
\* and the release counter counts the frames since the last detecting frame, so
\* every detecting frame puts it back to 0.
C13_PauseDoesNotSplit ==
    /\ Len(dtmf.events) = Cardinality(LongPresses)
    /\ \A p \in LongPresses :
           HasPause(p) => dtmf.events[Rank(p)] = WholePress(p, Unwrap(det(p[1])))
    /\ dtmf.db.gap_frames = IF IsSome(dtmf.db.current) THEN TrailingGap ELSE 0
    /\ dtmf.db.gap_frames < min_gap_frames

\* A key detected, paused for two frames, detected again and released gave one
\* event.
C13_Witness ==
    \E p \in LongPresses :
        /\ HasPause(p)
        /\ \E j \in p[1]..LastDetecting(p) : det(j) = None /\ det(j + 1) = None
        /\ Len(dtmf.events) = 1

\* The verdicts of the frames of the stream pushed since the last reset: the
\* frames of a stream are the same stretches of samples however it is sliced,
\* so one push of the whole stream meets the same verdicts.
StreamVerdicts == [i \in 1..Len(dtmf.seen) |-> det(i)]

\* C14: the events returned by the successive pushes of a stream fed after a
\* reset, concatenated, are the events of one push of the whole stream.
C14_SplitIndependent ==
    dtmf.events = push_events(pushed, StreamVerdicts)

\* C15: no push fails: the position arithmetic of frame_start and frame_end
\* neither panics nor wraps around.
C15_NoArithmeticFailure ==
    dtmf.arith = "ok"

\* Key k is a key of the largest count in the history, and the earliest such key
\* in the order of Keys.
KeyIndex(k) == CHOOSE i \in 1..Len(Keys) : Keys[i] = k
IsMajority(history, k) ==
    /\ \E i \in 1..Len(Keys) : Keys[i] = k
    /\ \A i \in 1..Len(Keys) :
           /\ CountKey(history, k) >= CountKey(history, Keys[i])
           /\ CountKey(history, k) = CountKey(history, Keys[i]) => KeyIndex(k) <= i

\* C16: the key of an emitted event is the key of the highest count in the
\* history of its press, the earliest in the order 1 2 3 A 4 5 6 B 7 8 9 C * 0
\* # D among the keys of that count; and a history that is not empty resolves
\* to one of the 16 keys.
C16_MajorityKey ==
    /\ \A p \in LongPresses :
           IsMajority(KeysOf(p[1], p[2]), dtmf.events[Rank(p)][1])
    /\ dtmf.db.current_history # <<>> =>
           /\ IsSome(most_common_key(dtmf.db.current_history))
           /\ IsMajority(dtmf.db.current_history,
                         Unwrap(most_common_key(dtmf.db.current_history)))

\* An event of a press whose frames detected 4 and then A, once each: the event
\* carries A, the earlier key in the order of Keys.
C16_Witness ==
    \E p \in LongPresses :
        /\ KeysOf(p[1], p[2]) = <<"4", "A">>
        /\ dtmf.events = <<WholePress(p, "A")>>

\* C17: after a reset, whatever was pushed before it (a partial frame, a key
\* still tracked), the pushes that follow return the events, and end the way,
\* they do on a debouncer built anew; and a reset always leaves the state from
\* which the control loop's one push per message starts.
C17_ResetLeavesNothing ==
    /\ resets > 0 =>
           /\ dtmf.events = twin.events
           /\ dtmf.arith = twin.arith
           /\ dtmf.db = twin.db
    /\ [f \in DOMAIN debouncer_reset |-> reset(dtmf.db)[f]] = debouncer_reset

\* A reset met a partial frame and a tracked key, and the pushes after it
\* returned an event.
C17_Witness ==
    /\ resets > 0
    /\ before_reset
    /\ dtmf.events # <<>>
    /\ dtmf.arith = "ok"

\* C26: after construction and after every push and reset that returned,
\* current_history is non-empty exactly when current is Some, gap_frames is
\* below min_gap_frames, samples_in_frame is below frame_len, and gap_frames is
\* above 0 only while current is Some.
C26_DebounceStateInvariant ==
    dtmf.arith # "panicked" =>
        /\ (dtmf.db.current_history # <<>>) <=> IsSome(dtmf.db.current)
        /\ dtmf.db.gap_frames < min_gap_frames
        /\ dtmf.db.samples_in_frame < frame_len
        /\ dtmf.db.gap_frames > 0 => IsSome(dtmf.db.current)

\* After a reset, pushes left a key tracked over two detecting frames, two
\* silent frames after it and half a frame begun.
C26_Witness ==
    /\ resets > 0
    /\ dtmf.arith = "ok"
    /\ Len(dtmf.db.current_history) = 2
    /\ dtmf.db.gap_frames = 2
    /\ dtmf.db.samples_in_frame = frame_len \div 2

\* ------------------------------------------------- claims on the detector
\* The stretches absorbed lie end to end from position `from` on.
RECURSIVE EndToEnd(_, _)
EndToEnd(s, from) ==
    s = <<>> \/ (s[1][1] = from /\ s[1][2] > from /\ EndToEnd(Tail(s), s[1][2]))

\* C30: since its last reset the detector has absorbed the first N samples
\* offered to feed and no others, samples_seen never exceeds N, a feed once N
\* samples were seen leaves the detector as it was, finish leaves it as it was
\* and returns twice in a row the same, and reset returns it to the state
\* DtmfDetector::new built.
C30_WindowCloses ==
    /\ goertzel.samples_seen <= goertzel.n
    /\ goertzel.samples_seen = Min(goertzel.n, offered.now - offered.at_reset)
    /\ EndToEnd(goertzel.s, offered.at_reset)
    /\ finish(goertzel).heard
           = IF goertzel.samples_seen = 0 THEN <<>>
             ELSE <<offered.at_reset, offered.at_reset + goertzel.samples_seen>>
    /\ (det_last.op = "feed" /\ det_last.before.samples_seen >= det_last.before.n)
           => goertzel = det_last.before
    /\ det_last.op = "finish" =>
           /\ goertzel = det_last.before
           /\ IsSome(det_last.prev) => det_last.result = det_last.prev
    /\ det_last.op = "reset" => goertzel = detector_new(goertzel.n)

\* A window of three samples was filled by two feeds, the second of which
\* brought more than it had room for; after a further feed, finish was called
\* twice.
C30_Witness ==
    /\ goertzel.n = 3
    /\ Len(goertzel.s) = 2
    /\ goertzel.samples_seen = 3
    /\ offered.now - offered.at_reset > 5
    /\ det_last.op = "finish"
    /\ IsSome(det_last.prev)

\* ------------------------------------------------- claims on the CW encoder
\* encode_units has run and returned units.
Encoded == IsSome(cw_result) /\ Unwrap(cw_result).ok
Units == Unwrap(cw_result).bits

\* The sequences of ss, in order, with sep between each two of them.
RECURSIVE JoinWith(_, _)
JoinWith(ss, sep) ==
    IF ss = <<>> THEN <<>>
    ELSE IF Len(ss) = 1 THEN ss[1]
    ELSE ss[1] \o sep \o JoinWith(Tail(ss), sep)

\* The units of a mark, of a pattern, and of a text of table characters.
MarkUnits(mark) == IF mark = "." THEN <<TRUE>> ELSE <<TRUE, TRUE, TRUE>>
PatternUnits(pattern) ==
    JoinWith([i \in 1..Len(pattern) |-> MarkUnits(pattern[i])], <<FALSE>>)
UpperOf(ch) == IF ch = "b" THEN "B" ELSE ch
CharUnits(ch) == PatternUnits(TableGet(UpperOf(ch)))
TextUnits(t) ==
    JoinWith([i \in 1..Len(t) |-> CharUnits(t[i])], <<FALSE, FALSE, FALSE>>)

\* The text holds only characters of the table, in either case.
OnlyTableCharacters(t) == \A i \in 1..Len(t) : UpperOf(t[i]) \in TableKeys

\* C18: a text of table characters only encodes to the patterns of its
\* characters, a dot 1 tone unit, a dash 3 tone units, 1 gap unit between the
\* marks of a character and none after its last mark, 3 gap units between
\* characters, no gap at either end; "A" gives tone, gap, tone, tone, tone; and
\* a lower-case letter gives the units of its upper-case letter.
C18_TableText ==
    IsSome(cw_result) /\ OnlyTableCharacters(cw_text) =>
        /\ Encoded
        /\ Units = TextUnits(cw_text)
        /\ cw_text # <<>> => Units[1] /\ Units[Len(Units)]
        /\ cw_text = <<"A">> => Units = <<TRUE, FALSE, TRUE, TRUE, TRUE>>
        /\ Unwrap(cw_result) = encode_units([i \in 1..Len(cw_text) |-> UpperOf(cw_text[i])])

\* The text "AbR" was encoded.
C18_Witness ==
    /\ cw_text = <<"A", "b", "R">>
    /\ Encoded
    /\ Units = <<TRUE, FALSE, TRUE, TRUE, TRUE, FALSE, FALSE, FALSE,
                 TRUE, TRUE, TRUE, FALSE, TRUE, FALSE, TRUE, FALSE, TRUE,
                 FALSE, FALSE, FALSE,
                 TRUE, FALSE, TRUE, TRUE, TRUE, FALSE, TRUE>>

\* The symbols of a text without white space whose brackets match: the pattern
\* of each character outside brackets, and for each bracketed group of
\* characters the patterns of its characters put together as one pattern.
\* `open` is the pattern of the group being read, None outside brackets.
RECURSIVE SymbolsFrom(_, _, _)
SymbolsFrom(t, i, open) ==
    IF i > Len(t) THEN <<>>
    ELSE IF t[i] = "<" THEN SymbolsFrom(t, i + 1, Some(<<>>))
    ELSE IF t[i] = ">"
    THEN (IF Unwrap(open) = <<>> THEN <<>> ELSE <<Unwrap(open)>>)
         \o SymbolsFrom(t, i + 1, None)
    ELSE IF IsSome(open)
    THEN SymbolsFrom(t, i + 1, Some(Unwrap(open) \o TableGet(UpperOf(t[i]))))
    ELSE <<TableGet(UpperOf(t[i]))>> \o SymbolsFrom(t, i + 1, None)

\* The text is made of table characters and bracketed groups of them.
RECURSIVE WellBracketed(_, _, _)
WellBracketed(t, i, open) ==
    IF i > Len(t) THEN ~open
    ELSE IF t[i] = "<" THEN ~open /\ WellBracketed(t, i + 1, TRUE)
    ELSE IF t[i] = ">" THEN open /\ WellBracketed(t, i + 1, FALSE)
    ELSE UpperOf(t[i]) \in TableKeys /\ WellBracketed(t, i + 1, open)

\* C19: a bracketed group is encoded as one fused symbol: every two adjacent
\* marks of the group have exactly 1 gap unit between them, no 3-unit gap
\* occurs inside the brackets, and the group is separated from the characters
\* before and after it by 3 gap units, as a character is; so for "A<AR>B".
C19_ProsignFused ==
    IsSome(cw_result) /\ WellBracketed(cw_text, 1, FALSE) =>
        /\ Encoded
        /\ Units = JoinWith([i \in 1..Len(SymbolsFrom(cw_text, 1, None)) |->
                                 PatternUnits(SymbolsFrom(cw_text, 1, None)[i])],
                            <<FALSE, FALSE, FALSE>>)

\* White space, and the words of a text: its longest stretches free of it.
IsSpace(ch) == ch \in {" ", "NBSP"}
RECURSIVE WordsFrom(_, _, _)
WordsFrom(t, i, word) ==
    IF i > Len(t) THEN (IF word = <<>> THEN <<>> ELSE <<word>>)
    ELSE IF IsSpace(t[i])
    THEN (IF word = <<>> THEN <<>> ELSE <<word>>) \o WordsFrom(t, i + 1, <<>>)
    ELSE WordsFrom(t, i + 1, Append(word, t[i]))
Words(t) == WordsFrom(t, 1, <<>>)

\* The text holds only table characters and white space, and ends with a word.
OnlyWords(t) ==
    /\ \A i \in 1..Len(t) : IsSpace(t[i]) \/ UpperOf(t[i]) \in TableKeys
    /\ t # <<>> /\ ~IsSpace(t[Len(t)])

\* The text without the white space between its brackets, and without its
\* leading white space and all but the first character of each run of it.
RECURSIVE WithoutSpaceInside(_, _, _)
WithoutSpaceInside(t, i, open) ==
    IF i > Len(t) THEN <<>>
    ELSE IF IsSpace(t[i]) /\ open THEN WithoutSpaceInside(t, i + 1, open)
    ELSE <<t[i]>> \o WithoutSpaceInside(t, i + 1,
                                        IF t[i] = "<" THEN TRUE
                                        ELSE IF t[i] = ">" THEN FALSE ELSE open)
RECURSIVE RunsCollapsed(_, _)
RunsCollapsed(t, i) ==
    IF i > Len(t) THEN <<>>
    ELSE IF IsSpace(t[i]) /\ (i = 1 \/ IsSpace(t[i - 1])) THEN RunsCollapsed(t, i + 1)
    ELSE <<t[i]>> \o RunsCollapsed(t, i + 1)

Gap7 == [i \in 1..7 |-> FALSE]

\* C20: outside brackets a run of white space after a symbol gives 7 gap units
\* in all and the next character follows them directly: words are joined by 7
\* gap units; white space before the first symbol gives nothing, and the length
\* of a run does not matter; white space between brackets changes nothing.
C20_WordGap ==
    IsSome(cw_result) =>
        /\ OnlyWords(cw_text) =>
               /\ Encoded
               /\ Units = JoinWith([i \in 1..Len(Words(cw_text)) |->
                                        TextUnits(Words(cw_text)[i])], Gap7)
        /\ Encoded =>
               /\ encode_units(RunsCollapsed(cw_text, 1)) = Unwrap(cw_result)
               /\ encode_units(WithoutSpaceInside(cw_text, 1, FALSE)) = Unwrap(cw_result)

\* "A", a run of four white space characters, "b": the units of A, 7 gap units,
\* the units of B.
C20_Witness ==
    /\ cw_text = <<"A", " ", " ", "NBSP", " ", "b">>
    /\ Encoded
    /\ Units = <<TRUE, FALSE, TRUE, TRUE, TRUE>> \o Gap7
               \o <<TRUE, TRUE, TRUE, FALSE, TRUE, FALSE, TRUE, FALSE, TRUE>>

\* A bracket group is open before the i-th character: the last bracket before
\* it is an opening one.
OpenBefore(t, i) ==
    \E j \in 1..(i - 1) :
        /\ t[j] = "<"
        /\ \A k \in (j + 1)..(i - 1) : t[k] \notin {"<", ">"}

\* The i-th character cannot be encoded: an opening bracket inside a group, a
\* closing bracket outside one, or a character that is neither white space nor
\* in the table once upper-cased.
Offends(t, i) ==
    IF t[i] = "<" THEN OpenBefore(t, i)
    ELSE IF t[i] = ">" THEN ~OpenBefore(t, i)
    ELSE ~IsSpace(t[i]) /\ UpperOf(t[i]) \notin TableKeys

Offenders(t) == {i \in 1..Len(t) : Offends(t, i)}
FirstOffender(t) == CHOOSE i \in Offenders(t) : \A j \in Offenders(t) : i <= j

\* C21: encode_units fails with UnknownSymbol of the first character, in scan
\* order, that cannot be encoded, and only then; a failure returns no units.
C21_UnknownSymbol ==
    IsSome(cw_result) =>
        /\ Offenders(cw_text) # {} =>
               Unwrap(cw_result) =
                   [ok |-> FALSE,
                    err |-> <<"UnknownSymbol", cw_text[FirstOffender(cw_text)]>>]
        /\ Offenders(cw_text) = {} =>
               \/ Encoded
               \/ Unwrap(cw_result).err[1] = "UnterminatedProsign"
        /\ ~Unwrap(cw_result).ok => DOMAIN Unwrap(cw_result) = {"ok", "err"}
        /\ cw_text = <<"{">> => Unwrap(cw_result) = UnknownSymbol("{")

\* "A{<" failed on the brace although symbols had been encoded before it and an
\* unmatched bracket follows it.
C21_Witness ==
    /\ cw_text = <<"A", "{", "<">>
    /\ IsSome(cw_result)
    /\ Unwrap(cw_result) = [ok |-> FALSE, err |-> <<"UnknownSymbol", "{">>]

\* The byte offset of the i-th character of the text.
ByteLen(ch) == IF ch = "NBSP" THEN 2 ELSE 1
RECURSIVE ByteOffset(_, _)
ByteOffset(t, i) == IF i <= 1 THEN 0 ELSE ByteOffset(t, i - 1) + ByteLen(t[i - 1])

\* The opening bracket of the group that is open at the end of the text.
Unmatched(t) ==
    CHOOSE j \in 1..Len(t) :
        t[j] = "<" /\ \A k \in (j + 1)..Len(t) : t[k] \notin {"<", ">"}

\* C22: when the text ends inside a bracket group and no character before the
\* end offends, encode_units fails with UnterminatedProsign of the byte offset
\* of the unmatched opening bracket; "<AR" gives UnterminatedProsign(0).
C22_UnterminatedProsign ==
    IsSome(cw_result) =>
        /\ Offenders(cw_text) = {} /\ OpenBefore(cw_text, Len(cw_text) + 1) =>
               Unwrap(cw_result) =
                   [ok |-> FALSE,
                    err |-> <<"UnterminatedProsign",
                              ByteOffset(cw_text, Unmatched(cw_text))>>]
        /\ cw_text = <<"<", "A", "R">> =>
               Unwrap(cw_result) = UnterminatedProsign(0)

\* A two-byte character before the unmatched bracket: the offset is 3, the
\* character index 2.
C22_Witness ==
    /\ cw_text = <<"A", "NBSP", "<", "R">>
    /\ IsSome(cw_result)
    /\ Unwrap(cw_result) = [ok |-> FALSE, err |-> <<"UnterminatedProsign", 3>>]

\* ----------------------------------------------- claims on the CW modulator
\* The samples of units us keyed from oscillator count osc on: a tone for a
\* tone unit, zeros for a gap unit, unit_samples of each.
RECURSIVE Keyed(_, _)
Keyed(us, osc) ==
    IF us = <<>> THEN <<>>
    ELSE Extend(IF Head(us) THEN <<Run("tone", osc, unit_samples, 0)>>
                ELSE <<Run("zero", 0, unit_samples, 0)>>,
                Keyed(Tail(us), osc + unit_samples))

\* The units taken by the calls so far.
Taken == SubSeq(cw_units.all, 1, Len(cw_units.all) - Len(cw_units.left))

\* C23: modulate returns a multiple of unit_samples that is at most the buffer
\* length, takes exactly count / unit_samples units, writes the taken units in
\* order, zeros for a gap unit, leaves the buffer beyond the count as it was;
\* and over successive calls on one iterator every unit is emitted exactly
\* once, in order.
C23_ModulateWholeUnits ==
    cw_call.calls > 0 =>
        /\ cw_call.written % unit_samples = 0
        /\ cw_call.written <= VLen(cw_call.out)
        /\ Len(cw_call.took) = cw_call.written \div unit_samples
        /\ VTake(cw_call.out, cw_call.written)
               = Keyed(cw_call.took, cw_osc - cw_call.written)
        /\ VDrop(cw_call.out, cw_call.written)
               = IF VLen(cw_call.out) = cw_call.written THEN <<>>
                 ELSE <<Run("old", cw_call.written,
                            VLen(cw_call.out) - cw_call.written, cw_call.calls)>>
        /\ cw_emitted = Keyed(Taken, 0)
        /\ Taken \o cw_units.left = cw_units.all

\* Four units went out over three calls, the second of which had no room for a
\* whole unit and took none.
C23_Witness ==
    /\ cw_units.all = <<TRUE, FALSE, TRUE, TRUE>>
    /\ cw_units.left = <<>>
    /\ cw_call.calls = 3
    /\ VLen(cw_call.out) = 2 * unit_samples + 1
    /\ cw_call.written = 2 * unit_samples
    /\ \E r \in 1..Len(cw_emitted) : cw_emitted[r].k = "zero"

\* ----------------------------------------------- claims on the playback side
\* The samples of out that came from a buffer, joined, the silence of an empty
\* ring left out.
RECURSIVE FromBuffers(_)
FromBuffers(out) ==
    IF out = <<>> THEN <<>>
    ELSE Extend(FromBuffers(SubSeq(out, 1, Len(out) - 1)),
                IF out[Len(out)].k = "buf" THEN <<out[Len(out)]>> ELSE <<>>)

RECURSIVE Joined(_)
Joined(chunks) ==
    IF chunks = <<>> THEN <<>> ELSE Extend(Head(chunks), Joined(Tail(chunks)))

\* All buffers sent, in submission order.
Submitted == [i \in 1..Len(play_sent) |-> Run("buf", 0, play_sent[i].len, i)]

\* Every sample sent is, in submission order and once, in the left output, in
\* the ring, in pending or in the channel: none dropped, duplicated, reordered.
PlayedInOrder ==
    Extend(Extend(Extend(FromBuffers(left_out), ring), pending), Joined(play_ch))
        = Submitted

\* Buffer i follows buffer i - 1 in the left output with no sample between.
Adjacent(i) ==
    \A j \in 1..Len(left_out) :
        (left_out[j].k = "buf" /\ left_out[j].id = i /\ left_out[j].a = 0)
            => /\ j > 1
               /\ left_out[j - 1].k = "buf"
               /\ left_out[j - 1].id = i - 1

\* C24: the buffers sent to the playback side reach the left output in
\* submission order, every sample exactly once, also a buffer longer than the
\* ring; and no silence is put between two buffers when the second was sent
\* before the first finished playing.
C24_PlayedBackToBack ==
    /\ PlayedInOrder
    /\ \A i \in 2..Len(play_sent) : play_sent[i].in_time => Adjacent(i)

\* ------------------------------------------------ claims on the capture side
\* C25: every chunk the capture side sends has end_sample one past the stream
\* position of its last sample, and the ranges [end_sample - len, end_sample)
\* of successive chunks are disjoint and increasing.
C25_EndSampleIsChunkEnd ==
    /\ \A i \in 1..Len(input_ch) : input_ch[i].end_sample = TrueEnd(input_ch[i])
    /\ \A i \in 1..Len(input_ch) : \A j \in (i + 1)..Len(input_ch) :
           input_ch[i].end_sample
               <= input_ch[j].end_sample - VLen(input_ch[j].samples)

\* ------------------------------------------------ claims on tone suppression
\* The sample at position i of v: its kind, source and place in the source.
RECURSIVE SampleAt(_, _)
SampleAt(v, i) ==
    IF i < v[1].n
    THEN [k |-> v[1].k, id |-> v[1].id,
          a |-> IF v[1].k = "zero" THEN 0 ELSE v[1].a + i]
    ELSE SampleAt(Tail(v), i - v[1].n)

\* Position i lies in the range [start, end] of one of the events.
InEvent(events, i) ==
    \E e \in 1..Len(events) : events[e][2] <= i /\ i <= events[e][3]

\* C29: suppress_dtmf overwrites exactly the samples at the positions start to
\* end, both included, of each key event, as far as they lie in the message;
\* every other sample and the length of the message stay as they were; without
\* events the message is unchanged; every range written lies in the message.
C29_SuppressExactRanges ==
    IsSome(sup_out) =>
        LET out == Unwrap(sup_out)
            len == VLen(sup_samples)
            ranges == collect_event_ranges(len, sup_events)
        IN /\ VLen(out) = len
           /\ \A i \in 0..(len - 1) :
                  IF InEvent(sup_events, i)
                  THEN SampleAt(out, i).k = "noise"
                  ELSE SampleAt(out, i) = SampleAt(sup_samples, i)
           /\ sup_events = <<>> => out = sup_samples
           /\ \A r \in 1..Len(ranges) :
                  0 <= ranges[r][1] /\ ranges[r][1] < ranges[r][2] /\ ranges[r][2] <= len

\* A message of four samples with one event inside it and one that begins in it
\* and ends beyond it: samples 1 and 3 were overwritten, 0 and 2 were kept.
C29_Witness ==
    /\ VLen(sup_samples) = 4
    /\ sup_events = << <<"#", 1, 1>>, <<"#", 3, 5>> >>
    /\ IsSome(sup_out)
    /\ SampleAt(Unwrap(sup_out), 1).k = "noise"
    /\ SampleAt(Unwrap(sup_out), 2) = SampleAt(sup_samples, 2)
    /\ SampleAt(Unwrap(sup_out), 3).k = "noise"

\* ------------------------------------------- claims on the keys of a message
\* The frame, counted from 1, that holds the sample at pos.
FrameOf(pos) == pos \div frame_len + 1

EventKeys(events) == [i \in 1..Len(events) |-> events[i][1]]

RECURSIVE AllDigits(_)
AllDigits(sequences) ==
    IF sequences = <<>> THEN <<>> ELSE sequences[1] \o AllDigits(Tail(sequences))

\* C35: an event is emitted only after min_gap_frames consecutive frames
\* without detection: every event of a message ends with a detecting frame of
\* that message which min_gap_frames silent frames of it follow; a key still
\* tracked when the samples end (also one a reset discarded before the message)
\* has no event, no digit in the digit strings and no suppressed range.
C35_NoEventBeforeRelease ==
    keyed.n > 0 =>
        /\ \A i \in 1..Len(keyed.events) :
              LET first == FrameOf(keyed.events[i][2])
                  last == FrameOf(keyed.events[i][3])
              IN /\ last + min_gap_frames <= Len(keyed.dets)
                 /\ \A j \in (last + 1)..(last + min_gap_frames) :
                       keyed.dets[j] = None
                 /\ first <= last
                 /\ IsSome(keyed.dets[first])
                 /\ IsSome(keyed.dets[last])
        /\ IsSome(keyed.db.current) =>
              /\ \A i \in 1..Len(keyed.events) :
                    keyed.events[i][3] < keyed.db.current_start
              /\ \A i \in 1..Len(keyed.ranges) :
                    keyed.ranges[i][2] <= keyed.db.current_start
        /\ AllDigits(keyed.sequences) = EventKeys(keyed.events)
        /\ Len(keyed.ranges) = Len(keyed.events)

\* A message with an event ends with a key still tracked, after a message that
\* ended so too.
C35_Witness ==
    /\ keyed.n = 2
    /\ IsSome(keyed.left_over)
    /\ keyed.events # <<>>
    /\ IsSome(keyed.db.current)
    /\ keyed.db.gap_frames > 0

\* C36: the events of one push of L samples into a freshly reset debouncer are
\* well-formed: start <= end < L, start and end + 1 are multiples of frame_len,
\* and each event starts at least min_gap_frames whole frames after the end of
\* the event before it.
C36_EventsWellFormed ==
    keyed.n > 0 =>
        \A i \in 1..Len(keyed.events) :
            LET start == keyed.events[i][2]
                end == keyed.events[i][3]
            IN /\ start <= end
               /\ end < keyed.len
               /\ start % frame_len = 0
               /\ (end + 1) % frame_len = 0
               /\ i > 1 =>
                     /\ keyed.events[i - 1][3] < start
                     /\ start - (keyed.events[i - 1][3] + 1)
                           >= min_gap_frames * frame_len

\* Two events of one push, exactly min_gap_frames frames apart.
C36_Witness ==
    /\ Len(keyed.events) = 2
    /\ keyed.events[2][2] - (keyed.events[1][3] + 1) = min_gap_frames * frame_len
=============================================================================
